------------------------ MODULE EventDetector_proofs ------------------------
(***************************************************************************)
(* What a batch of the detector holds, for any two snapshots and any       *)
(* memory: the lemmas that the proofs about its users share.               *)
(***************************************************************************)
EXTENDS EventDetector, SequenceTheorems, TLAPS

Integer == Int \cup {None}

Distinct(batch) ==
  \A i, j \in DOMAIN batch : batch[i].type = batch[j].type => i = j

(***************************************************************************)
(* Snapshots.                                                              *)
(***************************************************************************)

LEMMA ReadIntType ==
  ASSUME NEW value \in Integer
  PROVE  ReadInt(value) \in Integer
  <1>1. /\ 2 ^ IntBits \in Int /\ 2 ^ IntBits > 0
        /\ 2 ^ (IntBits - 1) \in Int
    BY GameStateAssumption
  <1>2. CASE value = None
    BY <1>2 DEF ReadInt, Integer
  <1>3. CASE value \in Int
    <2> DEFINE half == 2 ^ (IntBits - 1)
               size == 2 ^ IntBits
    <2>1. ReadInt(value) = ((value + half) % size) - half
      BY <1>3, NoneAssumption DEF ReadInt
    <2>2. half \in Int /\ size \in Int /\ size > 0
      BY <1>1
    <2> HIDE DEF half, size
    <2>3. ((value + half) % size) - half \in Int
      BY <1>3, <2>2
    <2>4. QED
      BY <2>1, <2>3 DEF Integer
  <1>4. QED
    BY <1>2, <1>3 DEF Integer

LEMMA SnapshotType ==
  ASSUME NEW s \in Snapshots
  PROVE  /\ s.map_round \in Integer
         /\ \A x \in Stats : s.stats[x] \in Integer
         /\ s.local \in BOOLEAN
  <1>1. PICK payload \in Payloads : s = NormalizeGsi(payload)
    BY DEF Snapshots
  <1>2. s.map_round = ReadInt(payload.map_round)
    BY <1>1 DEF NormalizeGsi
  <1>3. \A x \in Stats : s.stats[x] = IF IsLocal(payload) THEN ReadInt(payload.stats[x]) ELSE None
    BY <1>1 DEF NormalizeGsi
  <1>4. s.local = IsLocal(payload)
    BY <1>1 DEF NormalizeGsi
  <1>5. payload.map_round \in Integer /\ \A x \in Stats : payload.stats[x] \in Integer
    BY PayloadAssumption DEF Integer
  <1>6. QED
    BY <1>2, <1>3, <1>4, <1>5, ReadIntType DEF IsLocal, Integer

(***************************************************************************)
(* Batches.                                                                *)
(***************************************************************************)

\* A part of a batch: its events differ in their types, which are among types.
Part(batch, types) ==
  /\ batch \in Seq(Range(batch))
  /\ Distinct(batch)
  /\ EventTypes(batch) \subseteq types

LEMMA TypesAreOfRange ==
  ASSUME NEW batch
  PROVE  EventTypes(batch) = {e.type : e \in Range(batch)}
  BY DEF EventTypes, Range

LEMMA EmptyPart ==
  Part(<<>>, {}) /\ Range(<<>>) = {}
  BY DEF Part, Distinct, EventTypes, Range

LEMMA WhenPart ==
  ASSUME NEW condition, NEW event
  PROVE  /\ Part(When(condition, event), {event.type})
         /\ Range(When(condition, event)) = IF condition THEN {event} ELSE {}
  <1>1. CASE condition
    BY <1>1 DEF When, Part, Distinct, EventTypes, Range
  <1>2. CASE ~condition
    BY <1>2, EmptyPart DEF When, Part
  <1>3. QED
    BY <1>1, <1>2

\* The events of one type.
Of(batch, type) == {e \in Range(batch) : e.type = type}

LEMMA OfAnother ==
  ASSUME NEW s, NEW A, Part(s, A), NEW type, type \notin A
  PROVE  Of(s, type) = {}
  BY TypesAreOfRange DEF Part, Of

LEMMA JoinParts ==
  ASSUME NEW s, NEW t, NEW A, NEW B, Part(s, A), Part(t, B), A \cap B = {}
  PROVE  /\ Part(s \o t, A \cup B)
         /\ Range(s \o t) = Range(s) \cup Range(t)
  <1> DEFINE all == Range(s) \cup Range(t)
  <1>1. s \in Seq(all) /\ t \in Seq(all)
    BY SeqMonotonic DEF Part
  <1>2. Range(s \o t) = all /\ s \o t \in Seq(all)
    BY <1>1, ConcatProperties, RangeConcatenation
  <1>3. EventTypes(s \o t) \subseteq A \cup B
    BY <1>2, TypesAreOfRange DEF Part
  <1>4. Distinct(s \o t)
    <2>1. SUFFICES ASSUME NEW i \in 1 .. Len(s) + Len(t), NEW j \in 1 .. Len(s) + Len(t),
                          (s \o t)[i].type = (s \o t)[j].type
                   PROVE  i = j
      BY <1>1, ConcatProperties, LenProperties DEF Distinct
    <2>2. /\ \A k \in 1 .. Len(s) : (s \o t)[k] = s[k] /\ s[k].type \in A
          /\ \A k \in 1 .. Len(s) + Len(t) :
               k > Len(s) => (s \o t)[k] = t[k - Len(s)] /\ t[k - Len(s)].type \in B
      BY <1>1, ConcatProperties, LenProperties DEF Part, EventTypes
    <2>3. /\ \A k, l \in 1 .. Len(s) : s[k].type = s[l].type => k = l
          /\ \A k, l \in 1 .. Len(t) : t[k].type = t[l].type => k = l
      BY <1>1, LenProperties DEF Part, Distinct
    <2>4. Len(s) \in Nat /\ Len(t) \in Nat
      BY <1>1, LenProperties
    <2>5. CASE i <= Len(s) /\ j <= Len(s)
      BY <2>1, <2>2, <2>3, <2>4, <2>5
    <2>6. CASE i > Len(s) /\ j > Len(s)
      BY <2>1, <2>2, <2>3, <2>4, <2>6
    <2>7. CASE (i <= Len(s)) # (j <= Len(s))
      BY <2>1, <2>2, <2>4, <2>7
    <2>8. QED
      BY <2>4, <2>5, <2>6, <2>7
  <1>5. QED
    BY <1>2, <1>3, <1>4 DEF Part

LEMMA JoinOne ==
  ASSUME NEW s, NEW t, NEW A, NEW type, Part(s, A), Part(t, {type}), type \notin A
  PROVE  Part(s \o t, A \cup {type}) /\ Range(s \o t) = Range(s) \cup Range(t)
  <1>1. A \cap {type} = {}
    OBVIOUS
  <1>2. QED
    BY <1>1, JoinParts, Zenon

\* The events of one type in a part that is joined.
LEMMA OfJoined ==
  ASSUME NEW s, NEW t, NEW A, NEW type, Part(s, A), Part(t, {type}), type \notin A
  PROVE  Of(s \o t, type) = Range(t)
  <1>1. Of(s, type) = {}
    BY OfAnother
  <1>2. Of(t, type) = Range(t)
    BY TypesAreOfRange DEF Part, Of
  <1>3. Range(s \o t) = Range(s) \cup Range(t)
    BY JoinOne, Zenon
  <1>4. QED
    BY <1>1, <1>2, <1>3 DEF Of

LEMMA OfBefore ==
  ASSUME NEW s, NEW t, NEW A, NEW type, Part(s, A), Part(t, {type}), type \notin A,
         NEW other, other # type
  PROVE  Of(s \o t, other) = Of(s, other)
  <1>1. Of(t, other) = {}
    BY OfAnother
  <1>2. Range(s \o t) = Range(s) \cup Range(t)
    BY JoinOne, Zenon
  <1>3. QED
    BY <1>1, <1>2 DEF Of

LEMMA GainPart ==
  ASSUME NEW type, NEW old, NEW new
  PROVE  /\ Part(Gain(type, old, new), {type})
         /\ Range(Gain(type, old, new)) =
              IF Rose(old, new) THEN {Measured(type, new - old, new)} ELSE {}
  <1>1. Measured(type, new - old, new).type = type
    BY DEF Measured
  <1>2. QED
    BY <1>1, WhenPart, Zenon DEF Gain

LEMMA MeasuredPart ==
  ASSUME NEW type, NEW condition, NEW amount, NEW value
  PROVE  /\ Part(When(condition, Measured(type, amount, value)), {type})
         /\ Range(When(condition, Measured(type, amount, value))) =
              IF condition THEN {Measured(type, amount, value)} ELSE {}
  <1>1. Measured(type, amount, value).type = type
    BY DEF Measured
  <1>2. QED
    BY <1>1, WhenPart, Zenon

LEMMA AppearedPart ==
  ASSUME NEW type, NEW old, NEW new
  PROVE  Part(Appeared(type, old, new), {type})
  BY MeasuredPart DEF Appeared

LEMMA FactPart ==
  ASSUME NEW type, NEW condition
  PROVE  /\ Part(When(condition, Fact(type)), {type})
         /\ Range(When(condition, Fact(type))) = IF condition THEN {Fact(type)} ELSE {}
  <1>1. Fact(type).type = type
    BY DEF Fact
  <1>2. QED
    BY <1>1, WhenPart, Zenon

PairwiseTypes ==
  {"PlayerDamaged", "PlayerDied", "PlayerRespawned", "PlayerKill", "AceCandidate",
   "PlayerHeadshotKill", "PlayerAssist", "PlayerFlashed", "PlayerSmoked", "PlayerBurning",
   "MvpGained"}

LEMMA PairwisePart ==
  ASSUME NEW p, NEW c
  PROVE  /\ Part(PairwiseEvents(p, c), PairwiseTypes)
         /\ Of(PairwiseEvents(p, c), "PlayerAssist") =
              IF p.local /\ c.local
              THEN Range(Gain("PlayerAssist", p.stats.assists, c.stats.assists)) ELSE {}
  <1>1. CASE ~(p.local /\ c.local)
    BY <1>1, EmptyPart DEF PairwiseEvents, Part, Of
  <1>2. CASE p.local /\ c.local
    <2> DEFINE old == p.stats
               new == c.stats
               threshold == AceCandidateThreshold(c)
               s1 == When(Fell(old.health, new.health),
                          Measured("PlayerDamaged", old.health - new.health, new.health))
               s2 == When(Fell(old.health, new.health) /\ new.health = 0, Fact("PlayerDied"))
               s3 == When(Rose(old.health, new.health) /\ old.health = 0, Fact("PlayerRespawned"))
               s4 == Gain("PlayerKill", old.round_kills, new.round_kills)
               s5 == When(/\ Rose(old.round_kills, new.round_kills)
                          /\ "live" \in {p.round_phase, c.round_phase}
                          /\ threshold # None
                          /\ old.round_kills < threshold /\ new.round_kills >= threshold,
                          Measured("AceCandidate", None, new.round_kills))
               s6 == Gain("PlayerHeadshotKill", old.round_headshot_kills, new.round_headshot_kills)
               s7 == Gain("PlayerAssist", old.assists, new.assists)
               s8 == Appeared("PlayerFlashed", old.flashed, new.flashed)
               s9 == Appeared("PlayerSmoked", old.smoked, new.smoked)
               s10 == Appeared("PlayerBurning", old.burning, new.burning)
               s11 == Gain("MvpGained", old.mvps, new.mvps)
               b2 == s1 \o s2   b3 == b2 \o s3   b4 == b3 \o s4   b5 == b4 \o s5
               b6 == b5 \o s6   b7 == b6 \o s7   b8 == b7 \o s8   b9 == b8 \o s9
               b10 == b9 \o s10
               t1 == {"PlayerDamaged"}
               t2 == t1 \cup {"PlayerDied"}
               t3 == t2 \cup {"PlayerRespawned"}
               t4 == t3 \cup {"PlayerKill"}
               t5 == t4 \cup {"AceCandidate"}
               t6 == t5 \cup {"PlayerHeadshotKill"}
               t7 == t6 \cup {"PlayerAssist"}
               t8 == t7 \cup {"PlayerFlashed"}
               t9 == t8 \cup {"PlayerSmoked"}
               t10 == t9 \cup {"PlayerBurning"}
               t11 == t10 \cup {"MvpGained"}
    <2>1. PairwiseEvents(p, c) = b10 \o s11
      BY <1>2, Zenon DEF PairwiseEvents
    <2>2. /\ Part(s1, {"PlayerDamaged"})
          /\ Part(s2, {"PlayerDied"})
          /\ Part(s3, {"PlayerRespawned"})
          /\ Part(s5, {"AceCandidate"})
      BY MeasuredPart, FactPart, Zenon
    <2>3. /\ Part(s4, {"PlayerKill"})
          /\ Part(s6, {"PlayerHeadshotKill"})
          /\ Part(s7, {"PlayerAssist"})
          /\ Part(s11, {"MvpGained"})
      BY GainPart, Zenon
    <2>4. /\ Part(s8, {"PlayerFlashed"})
          /\ Part(s9, {"PlayerSmoked"})
          /\ Part(s10, {"PlayerBurning"})
      BY AppearedPart, Zenon
    <2> HIDE DEF s1, s2, s3, s4, s5, s6, s7, s8, s9, s10, s11
    <2>5. /\ "PlayerDied" \notin t1
          /\ "PlayerRespawned" \notin t2
          /\ "PlayerKill" \notin t3
          /\ "AceCandidate" \notin t4
          /\ "PlayerHeadshotKill" \notin t5
          /\ "PlayerAssist" \notin t6
          /\ "PlayerFlashed" \notin t7
          /\ "PlayerSmoked" \notin t8
          /\ "PlayerBurning" \notin t9
          /\ "MvpGained" \notin t10
      OBVIOUS
    <2>6. t11 = PairwiseTypes
      BY DEF PairwiseTypes
    <2> HIDE DEF s1, s2, s3, s4, s5, s6, s7, s8, s9, s10, s11
    <2> HIDE DEF t2, t3, t4, t5, t6, t7, t8, t9, t10, t11, b2, b3, b4, b5, b6, b7, b8, b9, b10
    <2>7. Part(b2, t2) /\ Part(b3, t3)
      BY <2>2, <2>5, JoinOne DEF b2, b3, t2, t3
    <2>8. Part(b4, t4) /\ Part(b5, t5)
      BY <2>2, <2>3, <2>5, <2>7, JoinOne DEF b4, b5, t4, t5
    <2>9. Part(b6, t6)
      BY <2>3, <2>5, <2>8, JoinOne DEF b6, t6
    <2>10. Part(b7, t7) /\ Of(b7, "PlayerAssist") = Range(s7)
      BY <2>3, <2>5, <2>9, JoinOne, OfJoined DEF b7, t7
    <2>11. Part(b8, t8) /\ Of(b8, "PlayerAssist") = Range(s7)
      BY <2>4, <2>5, <2>10, JoinOne, OfBefore DEF b8, t8
    <2>12. Part(b9, t9) /\ Of(b9, "PlayerAssist") = Range(s7)
      BY <2>4, <2>5, <2>11, JoinOne, OfBefore DEF b9, t9
    <2>13. Part(b10, t10) /\ Of(b10, "PlayerAssist") = Range(s7)
      BY <2>4, <2>5, <2>12, JoinOne, OfBefore DEF b10, t10
    <2>14. Part(b10 \o s11, t11) /\ Of(b10 \o s11, "PlayerAssist") = Range(s7)
      BY <2>3, <2>5, <2>13, JoinOne, OfBefore DEF t11
    <2>15. QED
      BY <1>2, <2>1, <2>6, <2>14 DEF s7
  <1>3. QED
    BY <1>1, <1>2

RestoredTypes == {"LocalPlayerRestored", "PlayerRespawned", "MvpGained", "PlayerAssist"}

LEMMA RestoredPart ==
  ASSUME NEW c, NEW m
  PROVE  /\ Part(RestoredEvents(c, m), RestoredTypes)
         /\ Range(RestoredEvents(c, m)) # {}
         /\ "LocalPlayerRestored" \in EventTypes(RestoredEvents(c, m))
         /\ Of(RestoredEvents(c, m), "PlayerAssist") =
              Range(Gain("PlayerAssist", m.assists, c.stats.assists))
  <1> DEFINE s1 == <<Fact("LocalPlayerRestored")>>
             s2 == When(m.hp = 0 /\ c.stats.health # None /\ c.stats.health > 0,
                        Fact("PlayerRespawned"))
             s3 == Gain("MvpGained", m.mvps, c.stats.mvps)
             s4 == Gain("PlayerAssist", m.assists, c.stats.assists)
             t1 == {"LocalPlayerRestored"}
             t2 == t1 \cup {"PlayerRespawned"}
             t3 == t2 \cup {"MvpGained"}
             t4 == t3 \cup {"PlayerAssist"}
  <1>1. RestoredEvents(c, m) = s1 \o s2 \o s3 \o s4
    BY Zenon DEF RestoredEvents
  <1>2. Part(s1, t1) /\ Range(s1) = {Fact("LocalPlayerRestored")}
    <2>1. s1 = When(TRUE, Fact("LocalPlayerRestored"))
      BY Zenon DEF When
    <2>2. QED
      BY <2>1, FactPart
  <1>3. /\ Part(s2, {"PlayerRespawned"})
        /\ Part(s3, {"MvpGained"})
        /\ Part(s4, {"PlayerAssist"})
    BY FactPart, GainPart, Zenon
  <1>4. /\ "PlayerRespawned" \notin t1
        /\ "MvpGained" \notin t2
        /\ "PlayerAssist" \notin t3
        /\ t4 = RestoredTypes
    BY DEF RestoredTypes
  <1> HIDE DEF s1, s2, s3, s4, t1, t2, t3, t4
  <1>5. Part(s1 \o s2, t2) /\ Range(s1 \o s2) = Range(s1) \cup Range(s2)
    BY <1>2, <1>3, <1>4, JoinOne DEF t2
  <1>6. Part(s1 \o s2 \o s3, t3) /\ Range(s1 \o s2 \o s3) = Range(s1 \o s2) \cup Range(s3)
    BY <1>3, <1>4, <1>5, JoinOne DEF t3
  <1>7. /\ Part(s1 \o s2 \o s3 \o s4, t4)
        /\ Range(s1 \o s2 \o s3 \o s4) = Range(s1 \o s2 \o s3) \cup Range(s4)
    BY <1>3, <1>4, <1>6, JoinOne DEF t4
  <1>8. Of(s1 \o s2 \o s3 \o s4, "PlayerAssist") = Range(s4)
    BY <1>3, <1>4, <1>6, OfJoined
  <1>9. Fact("LocalPlayerRestored") \in Range(s1 \o s2 \o s3 \o s4)
    BY <1>2, <1>5, <1>6, <1>7
  <1>10. "LocalPlayerRestored" \in EventTypes(s1 \o s2 \o s3 \o s4)
    BY <1>9, TypesAreOfRange DEF Fact
  <1>11. QED
    BY <1>1, <1>4, <1>7, <1>8, <1>9, <1>10 DEF s4

BombTypes == {"BombPlanted", "BombDefused", "BombExploded", "BombStateCleared"}

LEMMA BombPart ==
  ASSUME NEW p, NEW c
  PROVE  Part(BombEvents(p, c), BombTypes)
  <1> DEFINE s1 == When(ChangedTo(p.bomb, c.bomb, "planted"), Fact("BombPlanted"))
             s2 == When(ChangedTo(p.bomb, c.bomb, "defused"), Fact("BombDefused"))
             s3 == When(ChangedTo(p.bomb, c.bomb, "exploded"), Fact("BombExploded"))
             s4 == When(p.bomb = "planted" /\ c.bomb # "planted", Fact("BombStateCleared"))
             t1 == {"BombPlanted"}
             t2 == t1 \cup {"BombDefused"}
             t3 == t2 \cup {"BombExploded"}
             t4 == t3 \cup {"BombStateCleared"}
  <1>1. BombEvents(p, c) = s1 \o s2 \o s3 \o s4
    BY Zenon DEF BombEvents
  <1>2. Part(s1, t1) /\ Part(s2, {"BombDefused"})
    BY FactPart, Zenon
  <1>3. Part(s3, {"BombExploded"}) /\ Part(s4, {"BombStateCleared"})
    BY FactPart, Zenon
  <1>4. /\ "BombDefused" \notin t1 /\ "BombExploded" \notin t2 /\ "BombStateCleared" \notin t3
        /\ t4 = BombTypes
    BY DEF BombTypes
  <1> HIDE DEF s1, s2, s3, s4, t1, t2, t3, t4
  <1>5. Part(s1 \o s2, t2)
    BY <1>2, <1>4, JoinOne DEF t2
  <1>6. Part(s1 \o s2 \o s3, t3)
    BY <1>3, <1>4, <1>5, JoinOne DEF t3
  <1>7. Part(s1 \o s2 \o s3 \o s4, t4)
    BY <1>3, <1>4, <1>6, JoinOne DEF t4
  <1>8. QED
    BY <1>1, <1>4, <1>7

MatchTypes == {"HalftimeStarted", "HalftimeEnded", "TeamChanged", "GameOver"}

LEMMA MatchPart ==
  ASSUME NEW p, NEW c, NEW m
  PROVE  Part(MatchEvents(p, c, m), MatchTypes)
  <1> DEFINE s1 == When(ChangedTo(p.map_phase, c.map_phase, "intermission"),
                        Fact("HalftimeStarted"))
             s2 == When(p.map_phase = "intermission" /\ c.map_phase # "intermission",
                        Fact("HalftimeEnded"))
             s3 == When(c.local /\ c.team # None /\ m.team # None /\ c.team # m.team,
                        Fact("TeamChanged"))
             s4 == When(ChangedTo(p.map_phase, c.map_phase, "gameover"), Fact("GameOver"))
             t1 == {"HalftimeStarted"}
             t2 == t1 \cup {"HalftimeEnded"}
             t3 == t2 \cup {"TeamChanged"}
             t4 == t3 \cup {"GameOver"}
  <1>1. MatchEvents(p, c, m) = s1 \o s2 \o s3 \o s4
    BY Zenon DEF MatchEvents
  <1>2. Part(s1, t1) /\ Part(s2, {"HalftimeEnded"})
    BY FactPart, Zenon
  <1>3. Part(s3, {"TeamChanged"}) /\ Part(s4, {"GameOver"})
    BY FactPart, Zenon
  <1>4. /\ "HalftimeEnded" \notin t1 /\ "TeamChanged" \notin t2 /\ "GameOver" \notin t3
        /\ t4 = MatchTypes
    BY DEF MatchTypes
  <1> HIDE DEF s1, s2, s3, s4, t1, t2, t3, t4
  <1>5. Part(s1 \o s2, t2)
    BY <1>2, <1>4, JoinOne DEF t2
  <1>6. Part(s1 \o s2 \o s3, t3)
    BY <1>3, <1>4, <1>5, JoinOne DEF t3
  <1>7. Part(s1 \o s2 \o s3 \o s4, t4)
    BY <1>3, <1>4, <1>6, JoinOne DEF t4
  <1>8. QED
    BY <1>1, <1>4, <1>7

RoundTypes ==
  {"RoundEnded", "RoundWon", "RoundLost", "FreezeStarted", "FreezeEnded", "RoundStarted"}

\* The type of the second part depends on the winner.
LEMMA RoundPart ==
  ASSUME NEW p, NEW c, NEW m
  PROVE  /\ Part(RoundEvents(p, c, m), RoundTypes)
         /\ Of(RoundEvents(p, c, m), "RoundEnded") =
              IF RoundEnds(p, c, m)
              THEN {Measured("RoundEnded", None, EndedRound(p, c))} ELSE {}
         /\ Of(RoundEvents(p, c, m), "RoundWon") \cup Of(RoundEvents(p, c, m), "RoundLost") =
              IF HasOutcome(p, c, m)
              THEN {Measured(IF c.winner = OutcomeTeam(c, m) THEN "RoundWon" ELSE "RoundLost",
                             None, OutcomeRound(p, c, m))} ELSE {}
         /\ Of(RoundEvents(p, c, m), "RoundStarted") # {} =>
              p.round_phase = "freezetime" /\ c.round_phase = "live"
  <1> DEFINE outcome == IF c.winner = OutcomeTeam(c, m) THEN "RoundWon" ELSE "RoundLost"
             starts == p.round_phase = "freezetime" /\ c.round_phase = "live"
             s1 == When(RoundEnds(p, c, m), Measured("RoundEnded", None, EndedRound(p, c)))
             s2 == When(HasOutcome(p, c, m), Measured(outcome, None, OutcomeRound(p, c, m)))
             s3 == When(ChangedTo(p.round_phase, c.round_phase, "freezetime")
                          /\ c.map_phase # "gameover", Fact("FreezeStarted"))
             s4 == IF starts THEN <<Fact("FreezeEnded"), Fact("RoundStarted")>> ELSE <<>>
             t1 == {"RoundEnded"}
             t2 == t1 \cup {"RoundWon", "RoundLost"}
             t3 == t2 \cup {"FreezeStarted"}
             t4 == t3 \cup {"FreezeEnded", "RoundStarted"}
  <1>1. RoundEvents(p, c, m) = s1 \o s2 \o s3 \o s4
    BY Zenon DEF RoundEvents
  <1>2. /\ Part(s1, t1)
        /\ Range(s1) = IF RoundEnds(p, c, m)
                       THEN {Measured("RoundEnded", None, EndedRound(p, c))} ELSE {}
    BY MeasuredPart, Zenon
  <1>3. /\ Part(s2, {"RoundWon", "RoundLost"})
        /\ Range(s2) = IF HasOutcome(p, c, m)
                       THEN {Measured(outcome, None, OutcomeRound(p, c, m))} ELSE {}
    <2>1. /\ Part(s2, {outcome})
          /\ Range(s2) = IF HasOutcome(p, c, m)
                         THEN {Measured(outcome, None, OutcomeRound(p, c, m))} ELSE {}
      BY MeasuredPart, Zenon
    <2>2. QED
      BY <2>1 DEF Part
  <1>4. Part(s3, {"FreezeStarted"})
    BY FactPart, Zenon
  <1>5. Part(s4, {"FreezeEnded", "RoundStarted"})
    <2>1. CASE starts
      BY <2>1 DEF Part, Distinct, EventTypes, Range, Fact
    <2>2. CASE ~starts
      BY <2>2, EmptyPart DEF Part
    <2>3. QED
      BY <2>1, <2>2
  <1>6. /\ t1 \cap {"RoundWon", "RoundLost"} = {}
        /\ "FreezeStarted" \notin t2
        /\ t3 \cap {"FreezeEnded", "RoundStarted"} = {}
        /\ t4 = RoundTypes
    BY DEF RoundTypes
  <1>7. /\ {"RoundEnded", "RoundWon", "RoundLost"} \cap {"FreezeStarted"} = {}
        /\ {"RoundEnded", "RoundWon", "RoundLost"} \cap {"FreezeEnded", "RoundStarted"} = {}
    OBVIOUS
  <1>8. /\ Of(s1, "RoundEnded") = Range(s1)
        /\ Of(s1, "RoundWon") = {} /\ Of(s1, "RoundLost") = {}
    BY <1>2, TypesAreOfRange DEF Part, Of
  <1>9. /\ Of(s2, "RoundEnded") = {}
        /\ Of(s2, "RoundWon") \cup Of(s2, "RoundLost") = Range(s2)
    BY <1>3, TypesAreOfRange DEF Part, Of
  <1>10. \A type \in {"RoundEnded", "RoundWon", "RoundLost"} :
            Of(s3, type) = {} /\ Of(s4, type) = {}
    BY <1>4, <1>5, OfAnother
  <1>18. /\ Of(s1, "RoundStarted") = {} /\ Of(s2, "RoundStarted") = {}
         /\ Of(s3, "RoundStarted") = {}
         /\ Of(s4, "RoundStarted") # {} => starts
    <2>1. ~starts => Of(s4, "RoundStarted") = {}
      BY EmptyPart DEF Of
    <2>2. QED
      BY <1>2, <1>3, <1>4, <2>1, OfAnother
  <1> HIDE DEF s1, s2, s3, s4, t1, t2, t3, t4
  <1>11. Part(s1 \o s2, t2) /\ Range(s1 \o s2) = Range(s1) \cup Range(s2)
    BY <1>2, <1>3, <1>6, JoinParts DEF t2
  <1>12. Part(s1 \o s2 \o s3, t3) /\ Range(s1 \o s2 \o s3) = Range(s1 \o s2) \cup Range(s3)
    BY <1>4, <1>6, <1>11, JoinOne DEF t3
  <1>13. /\ Part(s1 \o s2 \o s3 \o s4, t4)
         /\ Range(s1 \o s2 \o s3 \o s4) = Range(s1 \o s2 \o s3) \cup Range(s4)
    BY <1>5, <1>6, <1>12, JoinParts DEF t4
  <1>14. \A type : Of(s1 \o s2 \o s3 \o s4, type)
                     = Of(s1, type) \cup Of(s2, type) \cup Of(s3, type) \cup Of(s4, type)
    BY <1>11, <1>12, <1>13 DEF Of
  <1>15. Of(s1 \o s2 \o s3 \o s4, "RoundEnded") = Range(s1)
    BY <1>8, <1>9, <1>10, <1>14
  <1>16. Of(s1 \o s2 \o s3 \o s4, "RoundWon") \cup Of(s1 \o s2 \o s3 \o s4, "RoundLost")
           = Range(s2)
    BY <1>8, <1>9, <1>10, <1>14
  <1>17. QED
    BY <1>1, <1>2, <1>3, <1>6, <1>13, <1>14, <1>15, <1>16, <1>18

(***************************************************************************)
(* The batch of a comparison.                                              *)
(***************************************************************************)

PresenceTypes ==
  {"MatchEntered", "MatchLeft", "LocalPlayerAcquired", "LocalPlayerLost", "LocalPlayerRestored"}

MayAcquire(c) == Enters(previous, c) \/ ~memory.acquired

LEMMA BatchRange ==
  ASSUME NEW c
  PROVE  LET m == MatchMemory(c)
         IN  Range(Batch(c)) =
                    (IF Enters(previous, c) THEN {Fact("MatchEntered")} ELSE {})
               \cup (IF m.acquired /\ MayAcquire(c) THEN {Fact("LocalPlayerAcquired")} ELSE {})
               \cup (IF Loses(m, c) THEN {Fact("LocalPlayerLost")} ELSE {})
               \cup (IF Restores(m, c) THEN Range(RestoredEvents(c, m)) ELSE {})
               \cup Range(PairwiseEvents(previous, c))
               \cup Range(BombEvents(previous, c))
               \cup Range(RoundEvents(previous, c, m))
               \cup Range(MatchEvents(previous, c, m))
  <1> DEFINE m == MatchMemory(c)
             s1 == When(Enters(previous, c), Fact("MatchEntered"))
             s2 == When(m.acquired /\ MayAcquire(c), Fact("LocalPlayerAcquired"))
             s3 == When(Loses(m, c), Fact("LocalPlayerLost"))
             s4 == IF Restores(m, c) THEN RestoredEvents(c, m) ELSE <<>>
             s5 == PairwiseEvents(previous, c)
             s6 == BombEvents(previous, c)
             s7 == RoundEvents(previous, c, m)
             s8 == MatchEvents(previous, c, m)
             all == UNION {Range(s1), Range(s2), Range(s3), Range(s4),
                           Range(s5), Range(s6), Range(s7), Range(s8)}
  <1>1. Batch(c) = s1 \o s2 \o s3 \o s4 \o s5 \o s6 \o s7 \o s8
    BY Zenon DEF Batch, MayAcquire
  <1>2. /\ s1 \in Seq(Range(s1)) /\ Range(s1) = IF Enters(previous, c) THEN {Fact("MatchEntered")} ELSE {}
        /\ s2 \in Seq(Range(s2))
        /\ Range(s2) = IF m.acquired /\ MayAcquire(c) THEN {Fact("LocalPlayerAcquired")} ELSE {}
        /\ s3 \in Seq(Range(s3)) /\ Range(s3) = IF Loses(m, c) THEN {Fact("LocalPlayerLost")} ELSE {}
    BY FactPart, Zenon DEF Part
  <1>3. /\ s4 \in Seq(Range(s4))
        /\ Range(s4) = IF Restores(m, c) THEN Range(RestoredEvents(c, m)) ELSE {}
    BY RestoredPart, EmptyPart DEF Part
  <1>4. /\ s5 \in Seq(Range(s5)) /\ s6 \in Seq(Range(s6))
        /\ s7 \in Seq(Range(s7)) /\ s8 \in Seq(Range(s8))
    BY PairwisePart, BombPart, RoundPart, MatchPart DEF Part
  <1> HIDE DEF s1, s2, s3, s4, s5, s6, s7, s8, m
  <1>5. /\ s1 \in Seq(all) /\ s2 \in Seq(all) /\ s3 \in Seq(all) /\ s4 \in Seq(all)
        /\ s5 \in Seq(all) /\ s6 \in Seq(all) /\ s7 \in Seq(all) /\ s8 \in Seq(all)
    <2>1. /\ Range(s1) \subseteq all /\ Range(s2) \subseteq all
          /\ Range(s3) \subseteq all /\ Range(s4) \subseteq all
          /\ Range(s5) \subseteq all /\ Range(s6) \subseteq all
          /\ Range(s7) \subseteq all /\ Range(s8) \subseteq all
      OBVIOUS
    <2> HIDE DEF all
    <2>2. QED
      BY <1>2, <1>3, <1>4, <2>1, SeqMonotonic
  <1> HIDE DEF all
  <1> DEFINE b2 == s1 \o s2   b3 == b2 \o s3   b4 == b3 \o s4   b5 == b4 \o s5
             b6 == b5 \o s6   b7 == b6 \o s7   b8 == b7 \o s8
  <1>6. b2 \in Seq(all) /\ b3 \in Seq(all) /\ b4 \in Seq(all) /\ b5 \in Seq(all)
        /\ b6 \in Seq(all) /\ b7 \in Seq(all)
    BY <1>5
  <1> HIDE DEF b2, b3, b4, b5, b6, b7
  <1>7. Range(b2) = Range(s1) \cup Range(s2) /\ Range(b3) = Range(b2) \cup Range(s3)
    <2>1. Range(s1 \o s2) = Range(s1) \cup Range(s2)
      BY ONLY <1>5, <1>6, RangeConcatenation
    <2>2. Range(b2 \o s3) = Range(b2) \cup Range(s3)
      BY ONLY <1>5, <1>6, RangeConcatenation
    <2>3. QED
      BY <2>1, <2>2, Zenon DEF b2, b3
  <1>8. Range(b4) = Range(b3) \cup Range(s4) /\ Range(b5) = Range(b4) \cup Range(s5)
    <2>1. Range(b3 \o s4) = Range(b3) \cup Range(s4)
      BY ONLY <1>5, <1>6, RangeConcatenation
    <2>2. Range(b4 \o s5) = Range(b4) \cup Range(s5)
      BY ONLY <1>5, <1>6, RangeConcatenation
    <2>3. QED
      BY <2>1, <2>2, Zenon DEF b4, b5
  <1>9. Range(b6) = Range(b5) \cup Range(s6) /\ Range(b7) = Range(b6) \cup Range(s7)
    <2>1. Range(b5 \o s6) = Range(b5) \cup Range(s6)
      BY ONLY <1>5, <1>6, RangeConcatenation
    <2>2. Range(b6 \o s7) = Range(b6) \cup Range(s7)
      BY ONLY <1>5, <1>6, RangeConcatenation
    <2>3. QED
      BY <2>1, <2>2, Zenon DEF b6, b7
  <1>10. Range(b8) = Range(b7) \cup Range(s8)
    BY <1>5, <1>6, RangeConcatenation DEF b8
  <1>11. /\ Batch(c) = b8
         /\ Range(b8) = Range(s1) \cup Range(s2) \cup Range(s3) \cup Range(s4) \cup Range(s5)
                         \cup Range(s6) \cup Range(s7) \cup Range(s8)
    BY <1>1, <1>7, <1>8, <1>9, <1>10, Zenon DEF b2, b3, b4, b5, b6, b7, b8
  <1>12. QED
    BY <1>2, <1>3, <1>11, Zenon DEF m, s5, s6, s7, s8

LEMMA BatchPresence ==
  ASSUME NEW c
  PROVE  LET m == MatchMemory(c)
         IN  EventTypes(Batch(c)) \cap PresenceTypes =
                    (IF Enters(previous, c) THEN {"MatchEntered"} ELSE {})
               \cup (IF m.acquired /\ MayAcquire(c) THEN {"LocalPlayerAcquired"} ELSE {})
               \cup (IF Loses(m, c) THEN {"LocalPlayerLost"} ELSE {})
               \cup (IF Restores(m, c) THEN {"LocalPlayerRestored"} ELSE {})
  <1> DEFINE m == MatchMemory(c)
             r4 == IF Restores(m, c) THEN Range(RestoredEvents(c, m)) ELSE {}
             r5 == Range(PairwiseEvents(previous, c))
             r6 == Range(BombEvents(previous, c))
             r7 == Range(RoundEvents(previous, c, m))
             r8 == Range(MatchEvents(previous, c, m))
  <1>1. EventTypes(Batch(c)) =
                    (IF Enters(previous, c) THEN {"MatchEntered"} ELSE {})
               \cup (IF m.acquired /\ MayAcquire(c) THEN {"LocalPlayerAcquired"} ELSE {})
               \cup (IF Loses(m, c) THEN {"LocalPlayerLost"} ELSE {})
               \cup {e.type : e \in r4} \cup {e.type : e \in r5} \cup {e.type : e \in r6}
               \cup {e.type : e \in r7} \cup {e.type : e \in r8}
    <2>1. EventTypes(Batch(c)) = {e.type : e \in Range(Batch(c))}
      BY TypesAreOfRange
    <2>2. /\ Fact("MatchEntered").type = "MatchEntered"
          /\ Fact("LocalPlayerAcquired").type = "LocalPlayerAcquired"
          /\ Fact("LocalPlayerLost").type = "LocalPlayerLost"
      BY DEF Fact
    <2> HIDE DEF r4, r5, r6, r7, r8, m
    <2>3. Range(Batch(c)) =
                 (IF Enters(previous, c) THEN {Fact("MatchEntered")} ELSE {})
            \cup (IF m.acquired /\ MayAcquire(c) THEN {Fact("LocalPlayerAcquired")} ELSE {})
            \cup (IF Loses(m, c) THEN {Fact("LocalPlayerLost")} ELSE {})
            \cup r4 \cup r5 \cup r6 \cup r7 \cup r8
      BY BatchRange, Zenon DEF r4, r5, r6, r7, r8, m
    <2>4. QED
      BY <2>1, <2>2, <2>3
  <1>2. /\ {e.type : e \in r5} \subseteq PairwiseTypes
        /\ {e.type : e \in r6} \subseteq BombTypes
        /\ {e.type : e \in r7} \subseteq RoundTypes
        /\ {e.type : e \in r8} \subseteq MatchTypes
    BY PairwisePart, BombPart, RoundPart, MatchPart, TypesAreOfRange DEF Part
  <1>3. /\ {e.type : e \in r4} \subseteq RestoredTypes
        /\ Restores(m, c) => "LocalPlayerRestored" \in {e.type : e \in r4}
        /\ ~Restores(m, c) => {e.type : e \in r4} = {}
    BY RestoredPart, TypesAreOfRange DEF Part
  <1> HIDE DEF m, r4, r5, r6, r7, r8
  <1>4. {e.type : e \in r4} \cap PresenceTypes =
          IF Restores(m, c) THEN {"LocalPlayerRestored"} ELSE {}
    BY <1>3 DEF RestoredTypes, PresenceTypes
  <1>5. /\ {e.type : e \in r5} \cap PresenceTypes = {}
        /\ {e.type : e \in r6} \cap PresenceTypes = {}
        /\ {e.type : e \in r7} \cap PresenceTypes = {}
        /\ {e.type : e \in r8} \cap PresenceTypes = {}
    BY <1>2 DEF PairwiseTypes, BombTypes, RoundTypes, MatchTypes, PresenceTypes
  <1>6. {"MatchEntered", "LocalPlayerAcquired", "LocalPlayerLost"} \subseteq PresenceTypes
    BY DEF PresenceTypes
  <1> HIDE DEF PresenceTypes
  <1>7. QED
    BY <1>1, <1>4, <1>5, <1>6 DEF m

LEMMA BatchOf ==
  ASSUME NEW c, NEW type, type \notin PresenceTypes
  PROVE  Of(Batch(c), type) =
           Of(PairwiseEvents(previous, c), type) \cup Of(BombEvents(previous, c), type)
           \cup Of(RoundEvents(previous, c, MatchMemory(c)), type)
           \cup Of(MatchEvents(previous, c, MatchMemory(c)), type)
           \cup (IF Restores(MatchMemory(c), c)
                 THEN Of(RestoredEvents(c, MatchMemory(c)), type) ELSE {})
  <1> DEFINE m == MatchMemory(c)
             facts == {Fact("MatchEntered"), Fact("LocalPlayerAcquired"), Fact("LocalPlayerLost")}
             r4 == Range(RestoredEvents(c, m))
             r5 == Range(PairwiseEvents(previous, c))
             r6 == Range(BombEvents(previous, c))
             r7 == Range(RoundEvents(previous, c, m))
             r8 == Range(MatchEvents(previous, c, m))
  <1>1. \A e \in facts : e.type # type
    BY DEF Fact, PresenceTypes
  <1>2. \E some \in SUBSET facts :
          Range(Batch(c)) = some \cup (IF Restores(m, c) THEN r4 ELSE {})
                                 \cup r5 \cup r6 \cup r7 \cup r8
    <2> DEFINE f1 == IF Enters(previous, c) THEN {Fact("MatchEntered")} ELSE {}
               f2 == IF m.acquired /\ MayAcquire(c) THEN {Fact("LocalPlayerAcquired")} ELSE {}
               f3 == IF Loses(m, c) THEN {Fact("LocalPlayerLost")} ELSE {}
    <2>1. Range(Batch(c)) = f1 \cup f2 \cup f3 \cup (IF Restores(m, c) THEN r4 ELSE {})
                            \cup r5 \cup r6 \cup r7 \cup r8
      BY BatchRange, Zenon
    <2>2. f1 \cup f2 \cup f3 \in SUBSET facts
      OBVIOUS
    <2> HIDE DEF f1, f2, f3, facts, r4, r5, r6, r7, r8, m
    <2>3. QED
      BY <2>1, <2>2
  <1> HIDE DEF facts
  <1>3. QED
    BY <1>1, <1>2 DEF Of

LEMMA BatchRounds ==
  ASSUME NEW c
  PROVE  LET m == MatchMemory(c)
         IN  /\ Of(Batch(c), "RoundEnded") =
                  IF RoundEnds(previous, c, m)
                  THEN {Measured("RoundEnded", None, EndedRound(previous, c))} ELSE {}
             /\ Of(Batch(c), "RoundWon") \cup Of(Batch(c), "RoundLost") =
                  IF HasOutcome(previous, c, m)
                  THEN {Measured(IF c.winner = OutcomeTeam(c, m) THEN "RoundWon" ELSE "RoundLost",
                                 None, OutcomeRound(previous, c, m))} ELSE {}
  <1> DEFINE m == MatchMemory(c)
  <1>1. ASSUME NEW type \in {"RoundEnded", "RoundWon", "RoundLost"}
        PROVE  Of(Batch(c), type) = Of(RoundEvents(previous, c, m), type)
    <2>1. /\ type \notin PresenceTypes /\ type \notin PairwiseTypes /\ type \notin BombTypes
          /\ type \notin MatchTypes /\ type \notin RestoredTypes
      BY DEF PresenceTypes, PairwiseTypes, BombTypes, MatchTypes, RestoredTypes
    <2>2. /\ Of(PairwiseEvents(previous, c), type) = {}
          /\ Of(BombEvents(previous, c), type) = {}
          /\ Of(MatchEvents(previous, c, m), type) = {}
          /\ Of(RestoredEvents(c, m), type) = {}
      BY <2>1, PairwisePart, BombPart, MatchPart, RestoredPart, OfAnother
    <2> HIDE DEF m
    <2>3. QED
      BY <2>1, <2>2, BatchOf DEF m
  <1>2. /\ Of(Batch(c), "RoundEnded") = Of(RoundEvents(previous, c, m), "RoundEnded")
        /\ Of(Batch(c), "RoundWon") = Of(RoundEvents(previous, c, m), "RoundWon")
        /\ Of(Batch(c), "RoundLost") = Of(RoundEvents(previous, c, m), "RoundLost")
    BY <1>1
  <1>3. QED
    BY <1>2, RoundPart, Zenon

LEMMA BatchStarts ==
  ASSUME NEW c, "RoundStarted" \in EventTypes(Batch(c))
  PROVE  previous.round_phase = "freezetime" /\ c.round_phase = "live"
  <1> DEFINE m == MatchMemory(c)
             type == "RoundStarted"
  <1>1. /\ type \notin PresenceTypes /\ type \notin PairwiseTypes /\ type \notin BombTypes
        /\ type \notin MatchTypes /\ type \notin RestoredTypes
    BY DEF PresenceTypes, PairwiseTypes, BombTypes, MatchTypes, RestoredTypes
  <1>2. /\ Of(PairwiseEvents(previous, c), type) = {}
        /\ Of(BombEvents(previous, c), type) = {}
        /\ Of(MatchEvents(previous, c, m), type) = {}
        /\ Of(RestoredEvents(c, m), type) = {}
    <2>1. /\ Part(PairwiseEvents(previous, c), PairwiseTypes)
          /\ Part(BombEvents(previous, c), BombTypes)
          /\ Part(MatchEvents(previous, c, m), MatchTypes)
          /\ Part(RestoredEvents(c, m), RestoredTypes)
      BY PairwisePart, BombPart, MatchPart, RestoredPart, Zenon
    <2>2. QED
      BY <1>1, <2>1, OfAnother, Zenon
  <1>3. Of(Batch(c), type) # {}
    BY TypesAreOfRange DEF Of
  <1>4. Of(RoundEvents(previous, c, m), type) # {}
    <2>1. Of(Batch(c), type) =
           Of(PairwiseEvents(previous, c), type) \cup Of(BombEvents(previous, c), type)
           \cup Of(RoundEvents(previous, c, m), type)
           \cup Of(MatchEvents(previous, c, m), type)
           \cup (IF Restores(m, c) THEN Of(RestoredEvents(c, m), type) ELSE {})
      BY <1>1, BatchOf, Zenon
    <2> HIDE DEF type, m
    <2>2. QED
      BY <1>2, <1>3, <2>1
  <1>5. QED
    BY <1>4, RoundPart, Zenon

LEMMA BatchAssists ==
  ASSUME NEW c
  PROVE  LET m == MatchMemory(c)
             old == previous.stats.assists
             new == c.stats.assists
         IN  Of(Batch(c), "PlayerAssist") =
                    (IF previous.local /\ c.local /\ Rose(old, new)
                     THEN {Measured("PlayerAssist", new - old, new)} ELSE {})
               \cup (IF Restores(m, c) /\ Rose(m.assists, new)
                     THEN {Measured("PlayerAssist", new - m.assists, new)} ELSE {})
  <1> DEFINE m == MatchMemory(c)
             type == "PlayerAssist"
             old == previous.stats.assists
             new == c.stats.assists
  <1>1. /\ type \notin PresenceTypes /\ type \notin BombTypes
        /\ type \notin MatchTypes /\ type \notin RoundTypes
    BY DEF PresenceTypes, BombTypes, MatchTypes, RoundTypes
  <1>2. /\ Of(BombEvents(previous, c), type) = {}
        /\ Of(MatchEvents(previous, c, m), type) = {}
        /\ Of(RoundEvents(previous, c, m), type) = {}
    BY <1>1, BombPart, MatchPart, RoundPart, OfAnother
  <1>3. /\ Of(PairwiseEvents(previous, c), type) =
             IF previous.local /\ c.local THEN Range(Gain(type, old, new)) ELSE {}
        /\ Of(RestoredEvents(c, m), type) = Range(Gain(type, m.assists, new))
    BY PairwisePart, RestoredPart, Zenon
  <1>4. /\ Range(Gain(type, old, new)) =
             IF Rose(old, new) THEN {Measured(type, new - old, new)} ELSE {}
        /\ Range(Gain(type, m.assists, new)) =
             IF Rose(m.assists, new) THEN {Measured(type, new - m.assists, new)} ELSE {}
    BY GainPart, Zenon
  <1>5. Of(Batch(c), type) =
           Of(PairwiseEvents(previous, c), type) \cup Of(BombEvents(previous, c), type)
           \cup Of(RoundEvents(previous, c, m), type) \cup Of(MatchEvents(previous, c, m), type)
           \cup (IF Restores(m, c) THEN Of(RestoredEvents(c, m), type) ELSE {})
    BY <1>1, BatchOf, Zenon
  <1>6. Of(Batch(c), type) =
                 (IF previous.local /\ c.local THEN Range(Gain(type, old, new)) ELSE {})
            \cup (IF Restores(m, c) THEN Range(Gain(type, m.assists, new)) ELSE {})
    BY <1>2, <1>3, <1>5
  <1> HIDE DEF m, old, new, type
  <1>7. QED
    BY <1>4, <1>6, Zenon DEF m, old, new, type

\* A batch says nothing twice unless it restores a player who was not away.
LEMMA BatchPart ==
  ASSUME NEW c, Restores(MatchMemory(c), c) => ~previous.local
  PROVE  Part(Batch(c), EventType)
  <1> DEFINE m == MatchMemory(c)
             s1 == When(Enters(previous, c), Fact("MatchEntered"))
             s2 == When(m.acquired /\ MayAcquire(c), Fact("LocalPlayerAcquired"))
             s3 == When(Loses(m, c), Fact("LocalPlayerLost"))
             s4 == IF Restores(m, c) THEN RestoredEvents(c, m) ELSE <<>>
             s5 == PairwiseEvents(previous, c)
             s6 == BombEvents(previous, c)
             s7 == RoundEvents(previous, c, m)
             s8 == MatchEvents(previous, c, m)
             t1 == {"MatchEntered"}
             t2 == t1 \cup {"LocalPlayerAcquired"}
             t3 == t2 \cup {"LocalPlayerLost"}
             b4 == IF Restores(m, c) THEN RestoredTypes ELSE {}
             b5 == IF Restores(m, c) THEN {} ELSE PairwiseTypes
             t4 == t3 \cup b4   t5 == t4 \cup b5   t6 == t5 \cup BombTypes
             t7 == t6 \cup RoundTypes   t8 == t7 \cup MatchTypes
             j2 == s1 \o s2   j3 == j2 \o s3   j4 == j3 \o s4   j5 == j4 \o s5
             j6 == j5 \o s6   j7 == j6 \o s7   j8 == j7 \o s8
  <1>1. Batch(c) = j8
    BY Zenon DEF Batch, MayAcquire
  <1>2. /\ Part(s1, {"MatchEntered"})
        /\ Part(s2, {"LocalPlayerAcquired"})
        /\ Part(s3, {"LocalPlayerLost"})
    BY FactPart, Zenon
  <1>3. Part(s4, b4)
    BY RestoredPart, EmptyPart, Zenon
  <1>4. Part(s5, b5)
    <2>1. CASE Restores(m, c)
      <3>1. s5 = <<>>
        BY <2>1, Zenon DEF PairwiseEvents
      <3>2. QED
        BY <2>1, <3>1, EmptyPart, Zenon
    <2>2. CASE ~Restores(m, c)
      BY <2>2, PairwisePart, Zenon
    <2>3. QED
      BY <2>1, <2>2
  <1>5. Part(s6, BombTypes) /\ Part(s7, RoundTypes) /\ Part(s8, MatchTypes)
    BY BombPart, RoundPart, MatchPart, Zenon
  <1>6. /\ "LocalPlayerAcquired" \notin t1 /\ "LocalPlayerLost" \notin t2
        /\ t3 \cap b4 = {}
    BY DEF RestoredTypes
  <1>7. t4 \cap b5 = {}
    BY DEF PairwiseTypes
  <1>8. /\ t5 \cap BombTypes = {}
        /\ t6 \cap RoundTypes = {}
        /\ t7 \cap MatchTypes = {}
    BY DEF RestoredTypes, PairwiseTypes, BombTypes, RoundTypes, MatchTypes
  <1>9. t8 \subseteq EventType
    BY DEF RestoredTypes, PairwiseTypes, BombTypes, RoundTypes, MatchTypes, EventType
  <1> HIDE DEF m, s1, s2, s3, s4, s5, s6, s7, s8, b4, b5
  <1>10. Part(j2, t2)
    BY <1>2, <1>6, JoinOne, Zenon
  <1>11. Part(j3, t3)
    BY <1>2, <1>6, <1>10, JoinOne, Zenon
  <1>12. Part(j4, t4)
    BY <1>3, <1>6, <1>11, JoinParts, Zenon
  <1>13. Part(j5, t5)
    BY <1>4, <1>7, <1>12, JoinParts, Zenon
  <1>14. Part(j6, t6)
    BY <1>5, <1>8, <1>13, JoinParts, Zenon
  <1>15. Part(j7, t7)
    BY <1>5, <1>8, <1>14, JoinParts, Zenon
  <1>16. Part(j8, t8)
    BY <1>5, <1>8, <1>15, JoinParts, Zenon
  <1>17. QED
    BY <1>1, <1>9, <1>16 DEF Part

(***************************************************************************)
(* The two early returns.                                                  *)
(***************************************************************************)

LEMMA FirstPart ==
  ASSUME NEW c, ProcessFirst(c)
  PROVE  Part(events', {"MatchEntered", "LocalPlayerAcquired"})
  <1> DEFINE s1 == When(c.map_name # None, Fact("MatchEntered"))
             s2 == When(c.map_name # None /\ c.local, Fact("LocalPlayerAcquired"))
  <1>1. events' = s1 \o s2
    BY Zenon DEF ProcessFirst
  <1>2. Part(s1, {"MatchEntered"}) /\ Part(s2, {"LocalPlayerAcquired"})
    BY FactPart, Zenon
  <1>3. "LocalPlayerAcquired" \notin {"MatchEntered"}
    OBVIOUS
  <1> HIDE DEF s1, s2
  <1>4. Part(s1 \o s2, {"MatchEntered"} \cup {"LocalPlayerAcquired"})
    BY <1>2, <1>3, JoinOne, Zenon
  <1>5. QED
    BY <1>1, <1>4 DEF Part

LEMMA LeavePart ==
  ASSUME NEW c, ProcessLeave(c)
  PROVE  Part(events', {"MatchLeft"})
  <1>1. events' = When(TRUE, Fact("MatchLeft"))
    BY Zenon DEF ProcessLeave, When
  <1>2. QED
    BY <1>1, FactPart, Zenon

LEMMA FirstTypes ==
  ASSUME NEW c, ProcessFirst(c)
  PROVE  EventTypes(events') =
                (IF c.map_name # None THEN {"MatchEntered"} ELSE {})
           \cup (IF c.map_name # None /\ c.local THEN {"LocalPlayerAcquired"} ELSE {})
  <1> DEFINE s1 == When(c.map_name # None, Fact("MatchEntered"))
             s2 == When(c.map_name # None /\ c.local, Fact("LocalPlayerAcquired"))
             f1 == IF c.map_name # None THEN {Fact("MatchEntered")} ELSE {}
             f2 == IF c.map_name # None /\ c.local THEN {Fact("LocalPlayerAcquired")} ELSE {}
  <1>1. events' = s1 \o s2
    BY Zenon DEF ProcessFirst
  <1>2. /\ Part(s1, {"MatchEntered"}) /\ Range(s1) = f1
        /\ Part(s2, {"LocalPlayerAcquired"}) /\ Range(s2) = f2
    BY FactPart, Zenon
  <1>3. "LocalPlayerAcquired" \notin {"MatchEntered"}
    OBVIOUS
  <1> HIDE DEF s1, s2, f1, f2
  <1>4. Range(s1 \o s2) = f1 \cup f2
    BY <1>2, <1>3, JoinOne, Zenon
  <1>5. EventTypes(events') = {e.type : e \in f1} \cup {e.type : e \in f2}
    BY <1>1, <1>4, TypesAreOfRange
  <1>6. Fact("MatchEntered").type = "MatchEntered"
        /\ Fact("LocalPlayerAcquired").type = "LocalPlayerAcquired"
    BY DEF Fact
  <1>7. QED
    BY <1>5, <1>6 DEF f1, f2

LEMMA LeaveTypes ==
  ASSUME NEW c, ProcessLeave(c)
  PROVE  EventTypes(events') = {"MatchLeft"}
  <1>1. events' = When(TRUE, Fact("MatchLeft")) /\ Fact("MatchLeft").type = "MatchLeft"
    BY DEF ProcessLeave, When, Fact
  <1>2. Range(events') = {Fact("MatchLeft")}
    BY <1>1, FactPart, Zenon
  <1>3. EventTypes(events') = {e.type : e \in {Fact("MatchLeft")}}
    BY <1>2, TypesAreOfRange
  <1>4. QED
    BY <1>1, <1>3

=============================================================================

------------------------ MODULE FactualEvents_proofs ------------------------
(***************************************************************************)
(* What the factual reports promise, for every stream of payloads.         *)
(***************************************************************************)
EXTENDS FactualEvents, EventDetector_proofs

(***************************************************************************)
(* The inductive invariant, a part for each thing the detector remembers.  *)
(***************************************************************************)

\* A team is whatever the payloads say.
MemoryOf(team) ==
  [endedRound : Integer, outcomeRound : Integer, hp : Integer, mvps : Integer,
   assists : Integer, team : {team}, acquired : BOOLEAN, lost : BOOLEAN]

Types ==
  /\ previous \in Snapshots \cup {None}
  /\ memory \in MemoryOf(memory.team)
  /\ memory.lost => memory.acquired
  /\ EventTypes(events) \subseteq EventType
  /\ Distinct(events)

\* The memory of the local player agrees with the snapshot it was made from.
MemoryIsCurrent ==
  /\ previous = None => memory = ClearedMemory
  /\ previous # None =>
       /\ previous.local => ~memory.lost
       /\ previous.local /\ previous.map_name # None => memory.acquired
       /\ memory.acquired /\ IsOtherPlayer(previous) => memory.lost
       /\ memory.acquired => previous.map_name # None
       /\ previous.local /\ previous.team # None => memory.team \in {previous.team, None}

\* The round that a snapshot is about.
RoundOf(s) == IF s = None THEN -1 ELSE Or(s.map_round, -1)

\* Rounds end in the order of their numbers.
RoundsAreInOrder ==
  /\ last = memory.endedRound
  /\ ended \subseteq Int
  /\ ended = {} => last = carried
  /\ ended # {} => last \in ended
  /\ \A round \in ended : round <= last /\ round <= RoundOf(previous)
  /\ last \in decided => memory.outcomeRound = last
  /\ previous = None => ended = {} /\ decided = {}

\* What is not credited yet is the growth since the last snapshot of the
\* counter, which is remembered unless a snapshot hid it.
AssistsAreRemembered ==
  /\ credited \in Int /\ gained \in Int /\ gap \in BOOLEAN
  /\ previous = None => credited = 0 /\ gained = 0
  /\ previous # None =>
       /\ previous.stats.assists # None => memory.assists = previous.stats.assists
       /\ ~gap /\ memory.assists # None => previous.stats.assists # None \/ memory.lost

Inv ==
  /\ Types
  /\ MemoryIsCurrent
  /\ RoundsAreInOrder /\ RoundsAreReportedOnce
  /\ AssistsAreRemembered /\ AssistsAddUp

(***************************************************************************)
(* The stream and the history.                                             *)
(***************************************************************************)

LEMMA StreamOfSnapshots ==
  ASSUME NEW s \in Snapshots
  PROVE  /\ s # None
         /\ s.map_name # None <=> s.map_round # None
         /\ s.map_name = None => s.stats.assists = None
         /\ s.stats.assists # None => s.local
  <1>1. PICK payload \in Payloads : s = NormalizeGsi(payload)
    BY DEF Snapshots
  <1>2. /\ s.map_name = payload.map_name
        /\ s.map_round = ReadInt(payload.map_round)
        /\ s.stats.assists = IF IsLocal(payload) THEN ReadInt(payload.stats["assists"]) ELSE None
        /\ s.local = IsLocal(payload)
    BY <1>1 DEF NormalizeGsi, Stats
  <1>3. ASSUME NEW value \in Integer
        PROVE  ReadInt(value) = None <=> value = None
    <2>1. CASE value = None
      BY <2>1 DEF ReadInt
    <2>2. CASE value # None
      <3>1. 2 ^ IntBits \in Int /\ 2 ^ IntBits > 0 /\ 2 ^ (IntBits - 1) \in Int
        BY GameStateAssumption
      <3> DEFINE half == 2 ^ (IntBits - 1)
                 size == 2 ^ IntBits
      <3>2. ReadInt(value) = ((value + half) % size) - half
        BY <2>2 DEF ReadInt
      <3>3. half \in Int /\ size \in Int /\ size > 0 /\ value \in Int
        BY <2>2, <3>1 DEF Integer
      <3> HIDE DEF half, size
      <3>4. ReadInt(value) \in Int
        BY <3>2, <3>3
      <3>5. QED
        BY <2>2, <3>4, NoneAssumption
    <2>3. QED
      BY <2>1, <2>2
  <1>4. payload.map_round \in Integer /\ payload.stats["assists"] \in Integer
    BY PayloadAssumption DEF Integer, Stats
  <1>5. ReadInt(payload.map_round) = None <=> payload.map_round = None
    BY <1>3, <1>4
  <1>6. ReadInt(payload.stats["assists"]) = None <=> payload.stats["assists"] = None
    BY <1>3, <1>4
  <1>7. /\ payload.map_name # None <=> payload.map_round # None
        /\ payload.map_name = None => payload.stats["assists"] = None
    BY StreamAssumption
  <1>8. QED
    BY <1>2, <1>5, <1>6, <1>7, NoneAssumption

LEMMA AssistsOfNone ==
  ASSUME NEW batch, {i \in DOMAIN batch : batch[i].type = "PlayerAssist"} = {}
  PROVE  Assists(batch) = 0
  <1> DEFINE amount(i) == batch[i].amount
             body(iter, s) == IF s = {} THEN 0
                              ELSE LET x == CHOOSE x \in s : TRUE IN amount(x) + iter[s \ {x}]
             iter == CHOOSE iter : iter = [s \in SUBSET {} |-> body(iter, s)]
  <1>1. Assists(batch) = iter[{}]
    BY Zenon DEF Assists, MapThenSumSet, MapThenFoldSet
  <1>2. [t \in {{}} |-> 0] = [s \in SUBSET {} |-> body([t \in {{}} |-> 0], s)]
    OBVIOUS
  <1>3. \E g : g = [s \in SUBSET {} |-> body(g, s)]
    BY <1>2
  <1>4. iter = [s \in SUBSET {} |-> body(iter, s)]
    BY <1>3
  <1> HIDE DEF iter
  <1>5. iter[{}] = body(iter, {})
    BY <1>4, Zenon
  <1>6. QED
    BY <1>1, <1>5

LEMMA AssistsOfOne ==
  ASSUME NEW batch, NEW k, batch[k].amount \in Int,
         {i \in DOMAIN batch : batch[i].type = "PlayerAssist"} = {k}
  PROVE  Assists(batch) = batch[k].amount
  <1> DEFINE amount(i) == batch[i].amount
             body(iter, s) == IF s = {} THEN 0
                              ELSE LET x == CHOOSE x \in s : TRUE IN amount(x) + iter[s \ {x}]
             iter == CHOOSE iter : iter = [s \in SUBSET {k} |-> body(iter, s)]
             fold == [s \in SUBSET {k} |-> IF s = {} THEN 0 ELSE amount(k)]
  <1>1. Assists(batch) = iter[{k}]
    BY Zenon DEF Assists, MapThenSumSet, MapThenFoldSet
  <1>2. fold = [s \in SUBSET {k} |-> body(fold, s)]
    <2>1. SUBSET {k} = {{}, {k}}
      OBVIOUS
    <2>2. fold[{}] = 0
      OBVIOUS
    <2>3. body(fold, {k}) = amount(k)
      <3>1. (CHOOSE x \in {k} : TRUE) = k
        OBVIOUS
      <3>2. {k} \ {k} = {}
        OBVIOUS
      <3>3. body(fold, {k}) = amount(k) + fold[{}]
        BY <3>1, <3>2
      <3> HIDE DEF fold
      <3>4. QED
        BY <2>2, <3>3
    <2>4. \A s \in SUBSET {k} : body(fold, s) = IF s = {} THEN 0 ELSE amount(k)
      <3> HIDE DEF fold
      <3>1. QED
      BY <2>1, <2>3
    <2>5. QED
      BY <2>4
  <1>3. \E g : g = [s \in SUBSET {k} |-> body(g, s)]
    BY <1>2
  <1>4. iter = [s \in SUBSET {k} |-> body(iter, s)]
    BY <1>3
  <1> HIDE DEF iter
  <1>5. iter[{k}] = amount(k) + iter[{}] /\ iter[{}] = 0
    <2>1. (CHOOSE x \in {k} : TRUE) = k /\ {k} \ {k} = {}
      OBVIOUS
    <2>2. iter[{k}] = body(iter, {k}) /\ iter[{}] = body(iter, {})
      BY <1>4
    <2>3. QED
      BY <2>1, <2>2
  <1>6. QED
    BY <1>1, <1>5

LEMMA AssistsOfBatch ==
  ASSUME NEW batch, Distinct(batch)
  PROVE  /\ Of(batch, "PlayerAssist") = {} => Assists(batch) = 0
         /\ \A amount \in Int : \A value :
              Of(batch, "PlayerAssist") = {Measured("PlayerAssist", amount, value)}
                => Assists(batch) = amount
  <1> DEFINE indices == {i \in DOMAIN batch : batch[i].type = "PlayerAssist"}
  <1>1. ASSUME Of(batch, "PlayerAssist") = {}
        PROVE  Assists(batch) = 0
    <2>1. indices = {}
      BY <1>1 DEF Of, Range
    <2>2. QED
      BY <2>1, AssistsOfNone
  <1>2. ASSUME NEW amount \in Int, NEW value,
               Of(batch, "PlayerAssist") = {Measured("PlayerAssist", amount, value)}
        PROVE  Assists(batch) = amount
    <2>1. PICK k \in DOMAIN batch : batch[k] = Measured("PlayerAssist", amount, value)
      BY <1>2 DEF Of, Range
    <2>2. batch[k].type = "PlayerAssist" /\ batch[k].amount = amount
      BY <2>1 DEF Measured
    <2>3. indices = {k}
      BY <2>2 DEF Distinct
    <2>4. QED
      BY <2>2, <2>3, AssistsOfOne
  <1>3. QED
    BY <1>1, <1>2

LEMMA ToldOf ==
  ASSUME NEW batch
  PROVE  /\ Told(batch, {"RoundEnded"}) = {e.value : e \in Of(batch, "RoundEnded")}
         /\ Told(batch, {"RoundWon", "RoundLost"}) =
              {e.value : e \in Of(batch, "RoundWon") \cup Of(batch, "RoundLost")}
  <1>1. {e \in Range(batch) : e.type \in {"RoundWon", "RoundLost"}} =
           Of(batch, "RoundWon") \cup Of(batch, "RoundLost")
    BY DEF Of
  <1>2. {e \in Range(batch) : e.type \in {"RoundEnded"}} = Of(batch, "RoundEnded")
    BY DEF Of
  <1>3. QED
    BY <1>1, <1>2 DEF Told

(***************************************************************************)
(* The memory.                                                             *)
(***************************************************************************)

\* The fields that a snapshot of the local player brings up to date.
LEMMA RememberType ==
  ASSUME NEW c \in Snapshots, NEW m,
         NEW team, m \in MemoryOf(team)
  PROVE  LET r == Remember(m, c)
         IN  /\ r \in MemoryOf(r.team)
             /\ r.endedRound = m.endedRound /\ r.outcomeRound = m.outcomeRound
             /\ r.acquired = m.acquired /\ r.lost = m.lost
             /\ r.assists = IF c.local THEN Or(c.stats.assists, m.assists) ELSE m.assists
             /\ r.team = IF c.local THEN Or(c.team, m.team) ELSE m.team
  <1>1. CASE ~c.local
    BY <1>1 DEF Remember, MemoryOf
  <1>2. CASE c.local
    <2> DEFINE hp == Or(c.stats.health, m.hp)
               mvps == Or(c.stats.mvps, m.mvps)
               assists == Or(c.stats.assists, m.assists)
               mine == Or(c.team, m.team)
    <2>1. c.stats.health \in Integer /\ c.stats.mvps \in Integer /\ c.stats.assists \in Integer
      BY SnapshotType DEF Stats
    <2>2. hp \in Integer /\ mvps \in Integer /\ assists \in Integer
      <3>1. m.hp \in Integer /\ m.mvps \in Integer /\ m.assists \in Integer
        BY DEF MemoryOf
      <3>2. QED
        BY <2>1, <3>1 DEF Or
    <2>3. Remember(m, c) = [m EXCEPT !.hp = hp, !.mvps = mvps, !.assists = assists, !.team = mine]
      BY <1>2 DEF Remember
    <2> HIDE DEF hp, mvps, assists, mine
    <2>4. Remember(m, c) = [endedRound |-> m.endedRound, outcomeRound |-> m.outcomeRound,
                            hp |-> hp, mvps |-> mvps, assists |-> assists, team |-> mine,
                            acquired |-> m.acquired, lost |-> m.lost]
      BY <2>3 DEF MemoryOf
    <2>5. QED
      BY <1>2, <2>2, <2>4 DEF MemoryOf, assists, mine
  <1>3. QED
    BY <1>1, <1>2

Changed(m, round, outcome, isLost) ==
  [m EXCEPT !.lost = isLost, !.endedRound = round, !.outcomeRound = outcome]

LEMMA ChangedMemory ==
  ASSUME NEW m, NEW team, m \in MemoryOf(team),
         NEW round \in Integer, NEW outcome \in Integer, NEW isLost \in BOOLEAN
  PROVE  Changed(m, round, outcome, isLost) =
           [endedRound |-> round, outcomeRound |-> outcome, hp |-> m.hp, mvps |-> m.mvps,
            assists |-> m.assists, team |-> m.team, acquired |-> m.acquired, lost |-> isLost]
  <1> DEFINE m1 == [m EXCEPT !.lost = isLost]
             m2 == [m1 EXCEPT !.endedRound = round]
             m3 == [m2 EXCEPT !.outcomeRound = outcome]
  <1>1. Changed(m, round, outcome, isLost) = m3
    BY Zenon DEF Changed
  <1>2. m1 = [endedRound |-> m.endedRound, outcomeRound |-> m.outcomeRound, hp |-> m.hp,
              mvps |-> m.mvps, assists |-> m.assists, team |-> m.team,
              acquired |-> m.acquired, lost |-> isLost]
    BY DEF MemoryOf
  <1>3. m1 \in MemoryOf(team)
    BY DEF MemoryOf
  <1> HIDE DEF m1
  <1>4. m2 = [endedRound |-> round, outcomeRound |-> m1.outcomeRound, hp |-> m1.hp,
              mvps |-> m1.mvps, assists |-> m1.assists, team |-> m1.team,
              acquired |-> m1.acquired, lost |-> m1.lost]
    BY <1>3 DEF MemoryOf
  <1>5. m2 \in MemoryOf(team)
    BY <1>3 DEF MemoryOf
  <1> HIDE DEF m2
  <1>6. m3 = [endedRound |-> m2.endedRound, outcomeRound |-> outcome, hp |-> m2.hp,
              mvps |-> m2.mvps, assists |-> m2.assists, team |-> m2.team,
              acquired |-> m2.acquired, lost |-> m2.lost]
    BY <1>5 DEF MemoryOf
  <1> HIDE DEF m3
  <1>7. QED
    BY <1>1, <1>2, <1>4, <1>6

LEMMA AcquiredMemory ==
  ASSUME NEW m, NEW team, m \in MemoryOf(team), NEW value \in BOOLEAN
  PROVE  [m EXCEPT !.acquired = value] =
           [endedRound |-> m.endedRound, outcomeRound |-> m.outcomeRound, hp |-> m.hp,
            mvps |-> m.mvps, assists |-> m.assists, team |-> m.team,
            acquired |-> value, lost |-> m.lost]
  BY DEF MemoryOf

LEMMA ClearedType ==
  ClearedMemory \in MemoryOf(None)
  BY DEF ClearedMemory, MemoryOf, Integer

\* The memory after each of the returns of process().
LEMMA FirstMemory ==
  ASSUME Types, MemoryIsCurrent, NEW c \in Snapshots, ProcessFirst(c)
  PROVE  /\ memory' \in MemoryOf(memory'.team)
         /\ memory'.endedRound = None /\ memory'.outcomeRound = None
         /\ memory'.acquired = (c.map_name # None /\ c.local)
         /\ memory'.lost = FALSE
         /\ memory'.assists = c.stats.assists
         /\ c.local => memory'.team = c.team
  <1> DEFINE acquires == c.map_name # None /\ c.local
             m == [ClearedMemory EXCEPT !.acquired = FALSE \/ acquires]
  <1>1. memory' = Remember(m, c)
    <2>1. ClearedMemory.acquired = FALSE
      BY DEF ClearedMemory
    <2>2. QED
      BY <2>1 DEF ProcessFirst, MemoryIsCurrent
  <1>2. c.local \in BOOLEAN /\ (c.stats.assists # None => c.local) /\ acquires \in BOOLEAN
    BY SnapshotType, StreamOfSnapshots
  <1>3. m = [endedRound |-> None, outcomeRound |-> None, hp |-> None, mvps |-> None,
             assists |-> None, team |-> None, acquired |-> acquires, lost |-> FALSE]
    <2> DEFINE value == FALSE \/ acquires
    <2>1. value = acquires
      BY <1>2
    <2> HIDE DEF acquires, value
    <2>2. [ClearedMemory EXCEPT !.acquired = value] =
            [endedRound |-> None, outcomeRound |-> None, hp |-> None, mvps |-> None,
             assists |-> None, team |-> None, acquired |-> value, lost |-> FALSE]
      <3>1. [ClearedMemory EXCEPT !.acquired = value] =
              [endedRound |-> ClearedMemory.endedRound,
               outcomeRound |-> ClearedMemory.outcomeRound, hp |-> ClearedMemory.hp,
               mvps |-> ClearedMemory.mvps, assists |-> ClearedMemory.assists,
               team |-> ClearedMemory.team, acquired |-> value, lost |-> ClearedMemory.lost]
        BY <1>2, <2>1, ClearedType, AcquiredMemory
      <3>2. QED
        BY <3>1 DEF ClearedMemory
    <2>3. QED
      BY <2>1, <2>2 DEF value
  <1>4. m \in MemoryOf(None)
    BY <1>2, <1>3 DEF MemoryOf, Integer
  <1> HIDE DEF m, acquires
  <1>5. /\ memory' \in MemoryOf(memory'.team)
        /\ memory'.endedRound = m.endedRound /\ memory'.outcomeRound = m.outcomeRound
        /\ memory'.acquired = m.acquired /\ memory'.lost = m.lost
        /\ memory'.assists = IF c.local THEN Or(c.stats.assists, m.assists) ELSE m.assists
        /\ memory'.team = IF c.local THEN Or(c.team, m.team) ELSE m.team
    BY <1>1, <1>4, RememberType
  <1>6. /\ m.endedRound = None /\ m.outcomeRound = None /\ m.assists = None /\ m.team = None
        /\ m.acquired = acquires /\ m.lost = FALSE
    BY <1>3
  <1>7. QED
    BY <1>2, <1>5, <1>6 DEF Or, acquires

LEMMA MatchMemoryType ==
  ASSUME Types, NEW c \in Snapshots
  PROVE  LET old == IF Enters(previous, c) THEN ClearedMemory ELSE memory
             m == MatchMemory(c)
         IN  /\ m = [endedRound |-> old.endedRound, outcomeRound |-> old.outcomeRound,
                     hp |-> old.hp, mvps |-> old.mvps, assists |-> old.assists,
                     team |-> old.team, acquired |-> old.acquired \/ Acquires(old, c),
                     lost |-> old.lost]
             /\ m \in MemoryOf(old.team)
  <1> DEFINE old == IF Enters(previous, c) THEN ClearedMemory ELSE memory
  <1>1. old \in MemoryOf(old.team)
    <2>1. CASE Enters(previous, c)
      BY <2>1, ClearedType DEF ClearedMemory
    <2>2. CASE ~Enters(previous, c)
      BY <2>2 DEF Types
    <2>3. QED
      BY <2>1, <2>2
  <1>2. MatchMemory(c) = [old EXCEPT !.acquired = @ \/ Acquires(old, c)]
    BY DEF MatchMemory
  <1> HIDE DEF old
  <1>3. QED
    BY <1>1, <1>2 DEF MemoryOf, old

LEMMA NextMemory ==
  ASSUME Types, NEW c \in Snapshots, ProcessNext(c)
  PROVE  LET m == MatchMemory(c)
             p == previous
         IN  /\ memory' \in MemoryOf(memory'.team)
             /\ memory'.endedRound = Or(EndedRound(p, c), m.endedRound)
             /\ memory'.outcomeRound = IF HasOutcome(p, c, m) THEN OutcomeRound(p, c, m)
                                       ELSE m.outcomeRound
             /\ memory'.acquired = m.acquired
             /\ memory'.lost = LostAfter(m, c)
             /\ memory'.assists = IF c.local THEN Or(c.stats.assists, m.assists) ELSE m.assists
             /\ memory'.team = IF c.local THEN Or(c.team, m.team) ELSE m.team
  <1> DEFINE m == MatchMemory(c)
             p == previous
             endedRound == Or(EndedRound(p, c), m.endedRound)
             outcomeRound == IF HasOutcome(p, c, m) THEN OutcomeRound(p, c, m) ELSE m.outcomeRound
             lost == LostAfter(m, c)
             changed == Changed(m, endedRound, outcomeRound, lost)
  <1>1. memory' = Remember(changed, c)
    BY Zenon DEF ProcessNext, Changed
  <1>2. m \in MemoryOf(m.team)
    BY MatchMemoryType
  <1>3. EndedRound(p, c) \in Integer /\ endedRound \in Integer
    <2>1. p \in Snapshots
      BY DEF Types, ProcessNext
    <2>2. p.map_round \in Integer /\ c.map_round \in Integer
      BY <2>1, SnapshotType
    <2>3. Or(p.map_round, Or(c.map_round, -1)) \in Integer
      BY <2>2 DEF Or, Integer
    <2>4. EndedRound(p, c) \in Integer
      BY <2>3 DEF EndedRound, Integer
    <2>5. m.endedRound \in Integer
      BY <1>2 DEF MemoryOf
    <2>6. QED
      BY <2>4, <2>5 DEF Or
  <1>4. outcomeRound \in Integer
    <2>1. OutcomeRound(p, c, m) = endedRound
      BY DEF OutcomeRound
    <2>2. m.outcomeRound \in Integer
      BY <1>2 DEF MemoryOf
    <2>3. QED
      BY <1>3, <2>1, <2>2
  <1>5. lost \in BOOLEAN
    BY DEF LostAfter
  <1> HIDE DEF m, p, endedRound, outcomeRound, lost
  <1>6. changed = [endedRound |-> endedRound, outcomeRound |-> outcomeRound, hp |-> m.hp,
                   mvps |-> m.mvps, assists |-> m.assists, team |-> m.team,
                   acquired |-> m.acquired, lost |-> lost]
    BY <1>2, <1>3, <1>4, <1>5, ChangedMemory
  <1>7. changed \in MemoryOf(m.team)
    BY <1>2, <1>3, <1>4, <1>5, <1>6 DEF MemoryOf
  <1> HIDE DEF changed
  <1>8. QED
    BY <1>1, <1>6, <1>7, RememberType
       DEF m, p, endedRound, outcomeRound, lost

(***************************************************************************)
(* Types, and the local player.                                            *)
(***************************************************************************)

LEMMA MatchMemoryFields ==
  ASSUME Types, NEW c \in Snapshots
  PROVE  LET old == IF Enters(previous, c) THEN ClearedMemory ELSE memory
             m == MatchMemory(c)
         IN  /\ m.endedRound = old.endedRound /\ m.outcomeRound = old.outcomeRound
             /\ m.assists = old.assists /\ m.team = old.team /\ m.lost = old.lost
             /\ m.acquired = (old.acquired \/ Acquires(old, c))
             /\ old \in MemoryOf(old.team) /\ m \in MemoryOf(m.team)
  <1> DEFINE old == IF Enters(previous, c) THEN ClearedMemory ELSE memory
             m == MatchMemory(c)
  <1>1. /\ m = [endedRound |-> old.endedRound, outcomeRound |-> old.outcomeRound,
                hp |-> old.hp, mvps |-> old.mvps, assists |-> old.assists,
                team |-> old.team, acquired |-> old.acquired \/ Acquires(old, c),
                lost |-> old.lost]
        /\ m \in MemoryOf(old.team)
    BY MatchMemoryType
  <1>2. old \in MemoryOf(old.team)
    BY ClearedType DEF Types, ClearedMemory
  <1> HIDE DEF m, old
  <1>3. QED
    BY <1>1, <1>2 DEF m, old

\* Only a player who was away is restored.
LEMMA RestoresTheLost ==
  ASSUME Types, MemoryIsCurrent, NEW c \in Snapshots, ProcessNext(c),
         Restores(MatchMemory(c), c)
  PROVE  /\ ~previous.local
         /\ ~Enters(previous, c) /\ memory.lost /\ memory.acquired
         /\ MatchMemory(c).assists = memory.assists
  <1>1. MatchMemory(c).lost
    BY DEF Restores
  <1>2. ~Enters(previous, c)
    BY <1>1, MatchMemoryFields DEF ClearedMemory
  <1>3. memory.lost
    BY <1>1, <1>2, MatchMemoryFields
  <1>4. previous # None
    BY DEF ProcessNext
  <1>5. QED
    BY <1>2, <1>3, <1>4, MatchMemoryFields DEF Types, MemoryIsCurrent

LEMMA BatchIsPart ==
  ASSUME Types, MemoryIsCurrent, NEW c \in Snapshots, ProcessNext(c)
  PROVE  Part(Batch(c), EventType)
  BY RestoresTheLost, BatchPart

LEMMA FirstKeeps ==
  ASSUME Types, MemoryIsCurrent, NEW c \in Snapshots, ProcessFirst(c)
  PROVE  Types' /\ MemoryIsCurrent'
  <1>1. previous' = c /\ c # None /\ c.local \in BOOLEAN
    BY StreamOfSnapshots, SnapshotType DEF ProcessFirst
  <1>2. EventTypes(events') \subseteq EventType /\ Distinct(events')
    BY FirstPart DEF Part, EventType
  <1>3. /\ memory' \in MemoryOf(memory'.team)
        /\ memory'.acquired = (c.map_name # None /\ c.local)
        /\ memory'.lost = FALSE
        /\ c.local => memory'.team = c.team
    BY FirstMemory
  <1>4. Types'
    BY <1>1, <1>2, <1>3 DEF Types, EventTypes, Distinct
  <1>5. MemoryIsCurrent'
    BY <1>1, <1>3 DEF MemoryIsCurrent, IsOtherPlayer
  <1>6. QED
    BY <1>4, <1>5

LEMMA LeaveKeeps ==
  ASSUME Types, MemoryIsCurrent, NEW c \in Snapshots, ProcessLeave(c)
  PROVE  Types' /\ MemoryIsCurrent'
  <1>1. previous' = c /\ c # None /\ c.map_name = None /\ memory' = ClearedMemory
    BY StreamOfSnapshots DEF ProcessLeave, Leaves
  <1>2. EventTypes(events') \subseteq EventType /\ Distinct(events')
    BY LeavePart DEF Part, EventType
  <1>3. /\ memory' \in MemoryOf(memory'.team)
        /\ memory'.acquired = FALSE /\ memory'.lost = FALSE /\ memory'.team = None
    BY <1>1, ClearedType DEF ClearedMemory
  <1>4. Types'
    BY <1>1, <1>2, <1>3 DEF Types, EventTypes, Distinct
  <1>5. MemoryIsCurrent'
    BY <1>1, <1>3 DEF MemoryIsCurrent
  <1>6. QED
    BY <1>4, <1>5

LEMMA NextKeeps ==
  ASSUME Types, MemoryIsCurrent, NEW c \in Snapshots, ProcessNext(c)
  PROVE  Types' /\ MemoryIsCurrent'
  <1> DEFINE m == MatchMemory(c)
             old == IF Enters(previous, c) THEN ClearedMemory ELSE memory
  <1>1. /\ previous' = c /\ c # None /\ c.local \in BOOLEAN
        /\ previous # None /\ ~Leaves(previous, c)
    BY StreamOfSnapshots, SnapshotType DEF ProcessNext
  <1>2. EventTypes(events') \subseteq EventType /\ Distinct(events')
    BY BatchIsPart DEF Part, ProcessNext
  <1>3. /\ memory' \in MemoryOf(memory'.team)
        /\ memory'.acquired = m.acquired
        /\ memory'.lost = LostAfter(m, c)
        /\ memory'.team = IF c.local THEN Or(c.team, m.team) ELSE m.team
    BY NextMemory
  <1>4. /\ m.lost = old.lost /\ m.acquired = (old.acquired \/ Acquires(old, c))
        /\ m \in MemoryOf(m.team)
    BY MatchMemoryFields
  <1>5. /\ old.lost \in BOOLEAN /\ old.acquired \in BOOLEAN
        /\ old.lost => old.acquired
        /\ old.acquired => c.map_name # None
    <2>1. CASE Enters(previous, c)
      BY <2>1 DEF ClearedMemory
    <2>2. CASE ~Enters(previous, c)
      BY <1>1, <2>2 DEF Types, MemoryOf, MemoryIsCurrent, Enters, Leaves
    <2>3. QED
      BY <2>1, <2>2
  <1> HIDE DEF m, old
  <1>6. memory'.lost => memory'.acquired
    BY <1>3, <1>4, <1>5 DEF LostAfter, Loses
  <1>7. Types'
    BY <1>1, <1>2, <1>3, <1>6 DEF Types, EventTypes, Distinct
  <1>8. c.local => ~memory'.lost
    BY <1>3, <1>4, <1>5 DEF LostAfter, Loses, Restores, IsOtherPlayer
  <1>9. c.local /\ c.map_name # None => memory'.acquired
    BY <1>3, <1>4, <1>5 DEF Acquires
  <1>10. memory'.acquired /\ IsOtherPlayer(c) => memory'.lost
    BY <1>3 DEF LostAfter, Loses, Restores, IsOtherPlayer
  <1>11. memory'.acquired => c.map_name # None
    BY <1>3, <1>4, <1>5 DEF Acquires
  <1>12. c.local /\ c.team # None => memory'.team = c.team
    BY <1>3 DEF Or
  <1>13. MemoryIsCurrent'
    BY <1>1, <1>8, <1>9, <1>10, <1>11, <1>12 DEF MemoryIsCurrent, IsOtherPlayer
  <1>14. QED
    BY <1>7, <1>13

LEMMA InvalidKeeps ==
  ASSUME Types, MemoryIsCurrent, ProcessInvalid
  PROVE  Types' /\ MemoryIsCurrent'
  <1>1. EventTypes(events') = {} /\ Distinct(events')
    BY EmptyPart DEF ProcessInvalid, Part
  <1>2. QED
    BY <1>1 DEF ProcessInvalid, Types, MemoryIsCurrent, EventTypes, Distinct

\* A snapshot that repeats the one before it says nothing.
LEMMA RepeatSaysNothing ==
  ASSUME Types, MemoryIsCurrent, previous # None
  PROVE  Batch(previous) = <<>>
  <1> DEFINE p == previous
             m == MatchMemory(p)
  <1>1. p \in Snapshots /\ p.local \in BOOLEAN
    BY SnapshotType DEF Types
  <1>2. ~Enters(p, p)
    BY DEF Enters
  <1>3. /\ m.lost = memory.lost /\ m.team = memory.team
        /\ m.acquired = (memory.acquired \/ Acquires(memory, p))
        /\ memory.lost \in BOOLEAN /\ memory.acquired \in BOOLEAN
    BY <1>1, <1>2, MatchMemoryFields DEF Types, MemoryOf
  <1>4. m.acquired = memory.acquired
    BY <1>3 DEF MemoryIsCurrent, Acquires
  <1>5. ~Loses(m, p) /\ ~Restores(m, p)
    BY <1>3, <1>4 DEF MemoryIsCurrent, Loses, Restores
  <1>6. ~(m.acquired /\ (Enters(p, p) \/ ~memory.acquired))
    BY <1>2, <1>4
  <1>7. p.map_round \in Integer /\ \A x \in Stats : p.stats[x] \in Integer
    BY <1>1, SnapshotType
  <1>8. ASSUME NEW x \in Integer
        PROVE  ~Rose(x, x) /\ ~Fell(x, x)
    BY DEF Rose, Fell, Integer
  <1> HIDE DEF m
  <1>9. PairwiseEvents(p, p) = <<>>
    <2>1. /\ p.stats.health \in Integer /\ p.stats.round_kills \in Integer
          /\ p.stats.round_headshot_kills \in Integer /\ p.stats.assists \in Integer
          /\ p.stats.mvps \in Integer /\ p.stats.flashed \in Integer
          /\ p.stats.smoked \in Integer /\ p.stats.burning \in Integer
      BY <1>7 DEF Stats
    <2>2. /\ ~Rose(p.stats.health, p.stats.health) /\ ~Fell(p.stats.health, p.stats.health)
          /\ ~Rose(p.stats.round_kills, p.stats.round_kills)
          /\ ~Rose(p.stats.round_headshot_kills, p.stats.round_headshot_kills)
          /\ ~Rose(p.stats.assists, p.stats.assists) /\ ~Rose(p.stats.mvps, p.stats.mvps)
      BY <1>8, <2>1
    <2>3. \A type : /\ Appeared(type, p.stats.flashed, p.stats.flashed) = <<>>
                    /\ Appeared(type, p.stats.smoked, p.stats.smoked) = <<>>
                    /\ Appeared(type, p.stats.burning, p.stats.burning) = <<>>
      <3>1. ASSUME NEW x \in Integer, NEW type
            PROVE  Appeared(type, x, x) = <<>>
        BY NoneAssumption DEF Appeared, When, Integer
      <3>2. QED
        BY <2>1, <3>1
    <2>4. QED
      BY <2>2, <2>3 DEF PairwiseEvents, When, Gain
  <1>10. BombEvents(p, p) = <<>>
    BY DEF BombEvents, When, ChangedTo
  <1>11. ~RoundEndEvidence(p, p) /\ ~WinnerAppeared(p, p)
    BY <1>7, <1>8 DEF RoundEndEvidence, WinnerAppeared, ChangedTo
  <1>12. RoundEvents(p, p, m) = <<>>
    BY <1>11 DEF RoundEvents, RoundEnds, HasOutcome, When, ChangedTo
  <1>13. MatchEvents(p, p, m) = <<>>
    BY <1>3 DEF MatchEvents, MemoryIsCurrent, When, ChangedTo
  <1>14. QED
    BY <1>2, <1>5, <1>6, <1>9, <1>10, <1>12, <1>13 DEF Batch, When, m

(***************************************************************************)
(* The reports implement LocalPresence.                                    *)
(***************************************************************************)

PresenceNow ==
  IF previous = None \/ previous.map_name = None THEN "detached"
  ELSE IF memory.lost THEN "lost"
  ELSE IF memory.acquired THEN "present" ELSE "unseen"

Report == EventTypes(events) \cap PresenceTypes

PresenceActions ==
  \/ /\ PresenceNow = "detached"
     /\ \/ PresenceNow' = "unseen" /\ Report' = {"MatchEntered"}
        \/ PresenceNow' = "present" /\ Report' = {"MatchEntered", "LocalPlayerAcquired"}
  \/ PresenceNow # "detached" /\ PresenceNow' = "detached" /\ Report' = {"MatchLeft"}
  \/ PresenceNow = "unseen" /\ PresenceNow' = "present" /\ Report' = {"LocalPlayerAcquired"}
  \/ PresenceNow = "present" /\ PresenceNow' = "lost" /\ Report' = {"LocalPlayerLost"}
  \/ PresenceNow = "lost" /\ PresenceNow' = "present" /\ Report' = {"LocalPlayerRestored"}
  \/ Report' = {} /\ PresenceNow' = PresenceNow

LEMMA FirstReports ==
  ASSUME Types, MemoryIsCurrent, NEW c \in Snapshots, ProcessFirst(c)
  PROVE  PresenceActions
  <1>1. PresenceNow = "detached"
    BY DEF PresenceNow, ProcessFirst
  <1>2. /\ previous' = c /\ c # None
        /\ memory'.acquired = (c.map_name # None /\ c.local) /\ memory'.lost = FALSE
    BY FirstMemory, StreamOfSnapshots DEF ProcessFirst
  <1>3. Report' = (IF c.map_name # None THEN {"MatchEntered"} ELSE {})
           \cup (IF c.map_name # None /\ c.local THEN {"LocalPlayerAcquired"} ELSE {})
    BY FirstTypes DEF Report, PresenceTypes, EventTypes
  <1>4. CASE c.map_name = None
    BY <1>1, <1>2, <1>3, <1>4 DEF PresenceActions, PresenceNow
  <1>5. CASE c.map_name # None /\ c.local
    BY <1>1, <1>2, <1>3, <1>5 DEF PresenceActions, PresenceNow
  <1>6. CASE c.map_name # None /\ ~c.local
    BY <1>1, <1>2, <1>3, <1>6 DEF PresenceActions, PresenceNow
  <1>7. QED
    BY <1>4, <1>5, <1>6

LEMMA LeaveReports ==
  ASSUME Types, MemoryIsCurrent, NEW c \in Snapshots, ProcessLeave(c)
  PROVE  PresenceActions
  <1>1. PresenceNow # "detached"
    BY DEF PresenceNow, ProcessLeave, Leaves
  <1>2. PresenceNow' = "detached"
    BY DEF PresenceNow, ProcessLeave, Leaves
  <1>3. EventTypes(events') = {"MatchLeft"}
    BY LeaveTypes
  <1>4. Report' = {"MatchLeft"}
    BY <1>3 DEF Report, PresenceTypes, EventTypes
  <1>5. QED
    BY <1>1, <1>2, <1>4 DEF PresenceActions

LEMMA NextReports ==
  ASSUME Types, MemoryIsCurrent, NEW c \in Snapshots, ProcessNext(c)
  PROVE  PresenceActions
  <1> DEFINE m == MatchMemory(c)
             enters == Enters(previous, c)
             old == IF enters THEN ClearedMemory ELSE memory
             acquires == Acquires(old, c)
             loses == Loses(m, c)
             restores == Restores(m, c)
  <1>1. /\ previous' = c /\ c # None /\ c.local \in BOOLEAN
        /\ previous # None /\ ~Leaves(previous, c)
    BY StreamOfSnapshots, SnapshotType DEF ProcessNext
  <1>2. /\ memory'.acquired = m.acquired
        /\ memory'.lost = LostAfter(m, c)
    BY NextMemory
  <1>3. /\ m.lost = old.lost /\ m.acquired = (old.acquired \/ acquires)
        /\ old.lost \in BOOLEAN /\ old.acquired \in BOOLEAN
    BY MatchMemoryFields DEF MemoryOf
  <1>4. Report' = (IF enters THEN {"MatchEntered"} ELSE {})
             \cup (IF m.acquired /\ (enters \/ ~memory.acquired)
                   THEN {"LocalPlayerAcquired"} ELSE {})
             \cup (IF loses THEN {"LocalPlayerLost"} ELSE {})
             \cup (IF restores THEN {"LocalPlayerRestored"} ELSE {})
    BY BatchPresence DEF Report, MayAcquire, ProcessNext, EventTypes
  <1>5. /\ enters <=> previous.map_name = None /\ c.map_name # None
        /\ previous.map_name # None => c.map_name # None
    BY <1>1 DEF Enters, Leaves
  <1>6. /\ acquires <=> c.map_name # None /\ c.local /\ ~old.acquired
        /\ loses <=> m.acquired /\ IsOtherPlayer(c) /\ ~m.lost
        /\ restores <=> m.acquired /\ m.lost /\ c.local
        /\ memory'.lost <=> (m.lost \/ loses) /\ ~restores
        /\ IsOtherPlayer(c) => ~c.local
    BY <1>2 DEF Acquires, Loses, Restores, LostAfter, IsOtherPlayer
  <1>7. /\ enters => old.acquired = FALSE /\ old.lost = FALSE
        /\ ~enters => old = memory
    BY DEF ClearedMemory
  <1>8. /\ memory.lost => memory.acquired
        /\ memory.acquired => previous.map_name # None
        /\ memory.acquired \in BOOLEAN /\ memory.lost \in BOOLEAN
    BY <1>1 DEF Types, MemoryOf, MemoryIsCurrent
  <1> HIDE DEF m, enters, old, acquires, loses, restores
  <1>9. PresenceNow' = IF c.map_name = None THEN "detached"
                       ELSE IF memory'.lost THEN "lost"
                       ELSE IF memory'.acquired THEN "present" ELSE "unseen"
    BY <1>1 DEF PresenceNow
  <1>10. PresenceNow = IF previous.map_name = None THEN "detached"
                       ELSE IF memory.lost THEN "lost"
                       ELSE IF memory.acquired THEN "present" ELSE "unseen"
    BY <1>1 DEF PresenceNow
  <1>11. CASE enters
    <2>1. ~loses /\ ~restores /\ ~memory'.lost /\ c.map_name # None
      BY <1>3, <1>5, <1>6, <1>7, <1>11
    <2>2. CASE memory'.acquired
      BY <1>2, <1>4, <1>5, <1>9, <1>10, <1>11, <2>1, <2>2 DEF PresenceActions
    <2>3. CASE ~memory'.acquired
      BY <1>2, <1>4, <1>5, <1>9, <1>10, <1>11, <2>1, <2>3 DEF PresenceActions
    <2>4. QED
      BY <2>2, <2>3
  <1>12. CASE c.map_name = None
    <2>1. previous.map_name = None /\ ~enters /\ ~memory.acquired /\ ~memory.lost
      BY <1>5, <1>8, <1>12
    <2>2. ~m.acquired /\ ~loses /\ ~restores
      BY <1>3, <1>6, <1>7, <1>12, <2>1
    <2>3. QED
      BY <1>4, <1>9, <1>10, <1>12, <2>1, <2>2 DEF PresenceActions
  <1>13. CASE ~enters /\ c.map_name # None
    <2>1. previous.map_name # None /\ m.lost = memory.lost
          /\ m.acquired = (memory.acquired \/ c.local)
      BY <1>3, <1>5, <1>6, <1>7, <1>8, <1>13, <1>1
    <2>2. CASE ~memory.acquired /\ c.local
      BY <1>2, <1>4, <1>6, <1>8, <1>9, <1>10, <1>13, <2>1, <2>2 DEF PresenceActions
    <2>3. CASE ~memory.acquired /\ ~c.local
      BY <1>2, <1>4, <1>6, <1>8, <1>9, <1>10, <1>13, <2>1, <2>3 DEF PresenceActions
    <2>4. CASE memory.acquired /\ memory.lost
      BY <1>2, <1>4, <1>6, <1>8, <1>9, <1>10, <1>13, <2>1, <2>4 DEF PresenceActions
    <2>5. CASE memory.acquired /\ ~memory.lost
      BY <1>2, <1>4, <1>6, <1>8, <1>9, <1>10, <1>13, <2>1, <2>5 DEF PresenceActions
    <2>6. QED
      BY <1>8, <2>2, <2>3, <2>4, <2>5
  <1>14. QED
    BY <1>11, <1>12, <1>13

LEMMA InvalidReports ==
  ASSUME ProcessInvalid
  PROVE  PresenceActions
  <1>1. EventTypes(events') = {}
    BY EmptyPart DEF ProcessInvalid, Part
  <1>2. Report' = {}
    BY <1>1 DEF Report, EventTypes
  <1>3. PresenceNow' = PresenceNow
    BY DEF ProcessInvalid, PresenceNow
  <1>4. QED
    BY <1>2, <1>3 DEF PresenceActions

(***************************************************************************)
(* Rounds.                                                                 *)
(***************************************************************************)

\* When a match is entered or left, and no other time.
LEMMA NextAttaches ==
  ASSUME NEW c, ProcessNext(c)
  PROVE  Attaches <=> Enters(previous, c)
  <1>1. EventTypes(events') \cap PresenceTypes \cap {"MatchEntered", "MatchLeft"} =
          IF Enters(previous, c) THEN {"MatchEntered"} ELSE {}
    BY BatchPresence DEF ProcessNext
  <1>2. EventTypes(events') \cap {"MatchEntered", "MatchLeft"} =
          IF Enters(previous, c) THEN {"MatchEntered"} ELSE {}
    BY <1>1 DEF PresenceTypes
  <1>3. QED
    BY <1>2 DEF Attaches, EventTypes

LEMMA LeaveAttaches ==
  ASSUME NEW c, ProcessLeave(c)
  PROVE  Attaches
  <1>1. events' = When(TRUE, Fact("MatchLeft")) /\ Fact("MatchLeft").type = "MatchLeft"
    BY DEF ProcessLeave, When, Fact
  <1>2. Range(events') = {Fact("MatchLeft")}
    BY <1>1, FactPart, Zenon
  <1>3. "MatchLeft" \in EventTypes(events')
    BY <1>1, <1>2, TypesAreOfRange
  <1>4. QED
    BY <1>3 DEF Attaches, EventTypes

\* A batch that only says how a match is entered or left says nothing of its rounds.
LEMMA SilentRounds ==
  ASSUME NEW types, Part(events', types),
         "RoundEnded" \notin types, "RoundWon" \notin types, "RoundLost" \notin types
  PROVE  Told(events', {"RoundEnded"}) = {} /\ Told(events', {"RoundWon", "RoundLost"}) = {}
  <1>1. /\ Of(events', "RoundEnded") = {} /\ Of(events', "RoundWon") = {}
        /\ Of(events', "RoundLost") = {}
    BY OfAnother
  <1>2. QED
    BY <1>1, ToldOf

LEMMA NextRounds ==
  ASSUME Types, NEW c \in Snapshots, ProcessNext(c)
  PROVE  LET m == MatchMemory(c)
             p == previous
         IN  /\ Told(events', {"RoundEnded"}) =
                  IF RoundEnds(p, c, m) THEN {EndedRound(p, c)} ELSE {}
             /\ Told(events', {"RoundWon", "RoundLost"}) =
                  IF HasOutcome(p, c, m) THEN {memory'.endedRound} ELSE {}
             /\ memory'.endedRound \in Integer
             /\ RoundEnds(p, c, m) => /\ memory'.endedRound = EndedRound(p, c)
                                      /\ memory'.endedRound \in Int
                                      /\ m.endedRound # EndedRound(p, c)
                                      /\ EndedRound(p, c) = Or(p.map_round, Or(c.map_round, -1))
             /\ ~RoundEnds(p, c, m) => memory'.endedRound = m.endedRound
             /\ HasOutcome(p, c, m) => /\ memory'.endedRound \in Int
                                       /\ m.outcomeRound # memory'.endedRound
                                       /\ memory'.outcomeRound = memory'.endedRound
             /\ ~HasOutcome(p, c, m) => memory'.outcomeRound = m.outcomeRound
  <1> DEFINE m == MatchMemory(c)
             p == previous
             round == EndedRound(p, c)
             ends == RoundEnds(p, c, m)
             decides == HasOutcome(p, c, m)
             won == IF c.winner = OutcomeTeam(c, m) THEN "RoundWon" ELSE "RoundLost"
             outcome == OutcomeRound(p, c, m)
  <1>1. /\ Of(events', "RoundEnded") =
             IF ends THEN {Measured("RoundEnded", None, round)} ELSE {}
        /\ Of(events', "RoundWon") \cup Of(events', "RoundLost") =
             IF decides THEN {Measured(won, None, outcome)} ELSE {}
    BY BatchRounds DEF ProcessNext
  <1>2. /\ memory'.endedRound = Or(round, m.endedRound)
        /\ memory'.outcomeRound = IF decides THEN outcome ELSE m.outcomeRound
        /\ memory'.endedRound \in Integer
    BY NextMemory DEF MemoryOf
  <1>3. outcome = memory'.endedRound
    BY <1>2 DEF OutcomeRound
  <1>4. /\ ends => RoundEndEvidence(p, c) /\ m.endedRound # round
        /\ ~ends /\ RoundEndEvidence(p, c) => m.endedRound = round
    BY DEF RoundEnds
  <1>5. round = IF RoundEndEvidence(p, c) THEN Or(p.map_round, Or(c.map_round, -1)) ELSE None
    BY DEF EndedRound
  <1>6. Or(p.map_round, Or(c.map_round, -1)) \in Int
    <2>1. p \in Snapshots
      BY DEF Types, ProcessNext
    <2>2. p.map_round \in Integer /\ c.map_round \in Integer
      BY <2>1, SnapshotType
    <2>3. QED
      BY <2>2 DEF Or, Integer
  <1>7. decides => outcome # None /\ m.outcomeRound # outcome
    BY DEF HasOutcome
  <1> HIDE DEF m, p, round, ends, decides, won, outcome
  <1>8. /\ Told(events', {"RoundEnded"}) = IF ends THEN {round} ELSE {}
        /\ Told(events', {"RoundWon", "RoundLost"}) = IF decides THEN {outcome} ELSE {}
    <2>1. /\ Measured("RoundEnded", None, round).value = round
          /\ Measured(won, None, outcome).value = outcome
      BY DEF Measured
    <2>2. /\ {e.value : e \in Of(events', "RoundEnded")} = IF ends THEN {round} ELSE {}
          /\ {e.value : e \in Of(events', "RoundWon") \cup Of(events', "RoundLost")} =
               IF decides THEN {outcome} ELSE {}
      BY <1>1, <2>1
    <2>3. QED
      BY <2>2, ToldOf, Zenon
  <1>9. ends => memory'.endedRound = round /\ round \in Int
    BY <1>2, <1>4, <1>5, <1>6, NoneAssumption DEF Or
  <1>10. ~ends => memory'.endedRound = m.endedRound
    BY <1>2, <1>4, <1>5, <1>6, NoneAssumption DEF Or
  <1>11. decides => memory'.endedRound \in Int
    BY <1>2, <1>3, <1>7 DEF Integer
  <1>12. QED
    BY <1>2, <1>3, <1>4, <1>5, <1>7, <1>8, <1>9, <1>10, <1>11
       DEF m, p, round, ends, decides, outcome

RoundsInv == RoundsAreInOrder /\ RoundsAreReportedOnce

LEMMA FirstRounds ==
  ASSUME Types, MemoryIsCurrent, RoundsInv,
         NEW c \in Snapshots, ProcessFirst(c), RecordRounds(c)
  PROVE  RoundsInv'
  <1>1. /\ memory'.endedRound = None /\ memory'.outcomeRound = None
        /\ previous' = c /\ c # None /\ previous = None /\ memory.endedRound = None
    <2>1. memory'.endedRound = None /\ memory'.outcomeRound = None
      BY FirstMemory
    <2>2. previous' = c /\ c # None /\ previous = None
      BY StreamOfSnapshots DEF ProcessFirst
    <2>3. memory.endedRound = None
      BY <2>2 DEF MemoryIsCurrent, ClearedMemory
    <2>4. QED
      BY <2>1, <2>2, <2>3
  <1>2. Told(events', {"RoundEnded"}) = {} /\ Told(events', {"RoundWon", "RoundLost"}) = {}
    BY FirstPart, SilentRounds
  <1>3. ended = {} /\ decided = {} /\ last = None /\ carried = None /\ ~repeated
    BY <1>1 DEF RoundsInv, RoundsAreInOrder, RoundsAreReportedOnce
  <1>4. ~RoundGoesBack(c)
    BY <1>1 DEF RoundGoesBack, InOneMatch
  <1>5. ended' = {} /\ decided' = {} /\ last' = None /\ carried' = None /\ ~repeated'
    BY <1>2, <1>3, <1>4 DEF RecordRounds, Since
  <1>6. QED
    BY <1>1, <1>5 DEF RoundsInv, RoundsAreInOrder, RoundsAreReportedOnce

LEMMA LeaveRounds ==
  ASSUME Types, RoundsInv, NEW c \in Snapshots, ProcessLeave(c), RecordRounds(c)
  PROVE  RoundsInv'
  <1>1. /\ memory'.endedRound = None /\ memory'.outcomeRound = None
        /\ previous' = c /\ c # None
    BY StreamOfSnapshots DEF ProcessLeave, ClearedMemory
  <1>2. Told(events', {"RoundEnded"}) = {} /\ Told(events', {"RoundWon", "RoundLost"}) = {}
    BY LeavePart, SilentRounds
  <1>3. Attaches
    BY LeaveAttaches
  <1>4. ~RoundGoesBack(c) /\ ~repeated
    BY DEF RoundGoesBack, InOneMatch, ProcessLeave, Leaves, RoundsInv, RoundsAreReportedOnce
  <1>5. ended' = {} /\ decided' = {} /\ last' = None /\ carried' = None /\ ~repeated'
    BY <1>2, <1>3, <1>4 DEF RecordRounds, Since
  <1>6. QED
    BY <1>1, <1>5 DEF RoundsInv, RoundsAreInOrder, RoundsAreReportedOnce

LEMMA NextRoundsKept ==
  ASSUME Types, MemoryIsCurrent, RoundsInv,
         NEW c \in Snapshots, ProcessNext(c), RecordRounds(c)
  PROVE  RoundsInv'
  <1> DEFINE m == MatchMemory(c)
             p == previous
             enters == Enters(p, c)
             back == RoundGoesBack(c)
             ends == RoundEnds(p, c, m)
             decides == HasOutcome(p, c, m)
             round == EndedRound(p, c)
             nowEnded == Told(events', {"RoundEnded"})
             nowDecided == Told(events', {"RoundWon", "RoundLost"})
             before == IF enters THEN {} ELSE ended
             knew == IF enters THEN {} ELSE decided
             settled == knew \ nowEnded
             was == IF enters THEN None ELSE last
             held == IF enters THEN None ELSE carried
  <1>1. /\ p \in Snapshots /\ p # None /\ previous' = c /\ c # None
    BY StreamOfSnapshots DEF ProcessNext, Types
  <1>2. /\ nowEnded = IF ends THEN {round} ELSE {}
        /\ nowDecided = IF decides THEN {memory'.endedRound} ELSE {}
        /\ memory'.endedRound \in Integer
        /\ ends => /\ memory'.endedRound = round /\ memory'.endedRound \in Int
                   /\ m.endedRound # round /\ round = Or(p.map_round, Or(c.map_round, -1))
        /\ ~ends => memory'.endedRound = m.endedRound
        /\ decides => /\ memory'.endedRound \in Int
                      /\ m.outcomeRound # memory'.endedRound
                      /\ memory'.outcomeRound = memory'.endedRound
        /\ ~decides => memory'.outcomeRound = m.outcomeRound
    BY NextRounds, Zenon
  <1>3. /\ m.endedRound = was
        /\ ~enters => m.outcomeRound = memory.outcomeRound
    BY MatchMemoryFields DEF ClearedMemory, RoundsInv, RoundsAreInOrder
  <1>4. Attaches <=> enters
    BY NextAttaches
  <1>5. /\ repeated' = (repeated \/ nowEnded \cap before # {} \/ nowDecided \cap settled # {})
        /\ last' = IF nowEnded = {} THEN was ELSE CHOOSE r \in nowEnded : TRUE
        /\ back => ended' = {} /\ carried' = last' /\ decided' = (settled \cup nowDecided) \cap {last'}
        /\ ~back => /\ ended' = before \cup nowEnded /\ carried' = held
                    /\ decided' = settled \cup nowDecided
    BY <1>4 DEF RecordRounds, Since
  <1>6. /\ ~repeated
        /\ before \subseteq Int
        /\ before = {} => was = held
        /\ before # {} => was \in before
        /\ \A r \in before : r <= was /\ r <= RoundOf(p)
        /\ knew \subseteq before \cup ({held} \ {None})
        /\ was \in knew => m.outcomeRound = was
    BY <1>3 DEF RoundsInv, RoundsAreInOrder, RoundsAreReportedOnce
  <1>7. /\ RoundOf(p) = Or(p.map_round, -1) /\ RoundOf(c) = Or(c.map_round, -1)
        /\ p.map_round \in Integer /\ c.map_round \in Integer
    BY <1>1, SnapshotType DEF RoundOf
  <1>8. /\ p.map_name # None <=> p.map_round # None
        /\ c.map_name # None <=> c.map_round # None
        /\ p.map_name # None => c.map_name # None
        /\ enters <=> p.map_name = None /\ c.map_name # None
        /\ back <=> p.map_name # None /\ c.map_name # None /\ Fell(p.map_round, c.map_round)
    BY <1>1, StreamOfSnapshots DEF ProcessNext, Leaves, Enters, RoundGoesBack, InOneMatch
  <1> HIDE DEF m, p, enters, back, ends, decides, round, nowEnded, nowDecided
  \* The rounds stay in order, whatever ends.
  <1>9. /\ ~enters => Or(p.map_round, Or(c.map_round, -1)) = RoundOf(p)
        /\ enters => Or(p.map_round, Or(c.map_round, -1)) = RoundOf(c)
    BY <1>7, <1>8 DEF Or
  <1>10. ~enters /\ ~back => RoundOf(p) <= RoundOf(c)
    BY <1>7, <1>8 DEF Or, Fell, Integer
  <1>11. RoundOf(p) \in Int /\ RoundOf(c) \in Int
    BY <1>7 DEF Or, Integer
  <1>12. last' = memory'.endedRound
    <2>1. CASE ends
      BY <1>2, <1>5, <2>1
    <2>2. CASE ~ends
      BY <1>2, <1>3, <1>5, <2>2
    <2>3. QED
      BY <2>1, <2>2
  <1>13. ends => round \notin before
    <2>1. SUFFICES ASSUME ends, round \in before
                   PROVE  FALSE
      OBVIOUS
    <2>2. ~enters
      BY <2>1
    <2>3. round = RoundOf(p)
      BY <1>2, <1>9, <2>1, <2>2
    <2>4. was \in before /\ was <= RoundOf(p) /\ round <= was
      BY <1>6, <2>1
    <2>5. was = round
      BY <1>6, <1>11, <2>3, <2>4
    <2>6. QED
      BY <1>2, <1>3, <2>1, <2>5
  <1>14. decides => memory'.endedRound \notin settled
    <2>1. CASE ends
      BY <1>2, <2>1
    <2>2. CASE ~ends
      BY <1>2, <1>3, <1>6, <2>2
    <2>3. QED
      BY <2>1, <2>2
  <1>15. ~repeated'
    <2>1. nowEnded \cap before = {}
      BY <1>2, <1>13
    <2>2. nowDecided \cap settled = {}
      BY <1>2, <1>14
    <2> HIDE DEF settled, before
    <2>3. QED
      BY <1>5, <1>6, <2>1, <2>2
  <1> HIDE DEF before, knew, was, held
  <1>16. decided' \subseteq ended' \cup ({carried'} \ {None})
    <2>1. settled \subseteq before \cup ({held} \ {None})
      BY <1>6
    <2>2. nowDecided \subseteq {last'} \ {None}
      BY <1>2, <1>12, NoneAssumption
    <2>3. nowEnded # {} => nowEnded = {last'}
      BY <1>2, <1>12
    <2>4. None \notin before
      BY <1>6, NoneAssumption
    <2>5. CASE back
      <3>1. None \notin settled
        BY <2>1, <2>4
      <3>2. QED
        BY <1>5, <2>2, <2>5, <3>1
    <2>6. CASE ~back
      <3>1. last' \in before \cup nowEnded \cup {held}
        BY <1>5, <1>6, <2>3
      <3> HIDE DEF settled
      <3>2. QED
        BY <1>5, <2>1, <2>2, <2>6, <3>1
    <2>7. QED
      BY <2>5, <2>6
  <1>17. last' \in decided' => memory'.outcomeRound = last'
    <2>1. CASE decides
      BY <1>2, <1>12, <2>1
    <2>2. CASE ~decides
      <3>1. nowDecided = {} /\ decided' \subseteq settled /\ memory'.outcomeRound = m.outcomeRound
        BY <1>2, <1>5, <2>2
      <3>2. CASE ends
        BY <1>2, <1>12, <3>1, <3>2
      <3>3. CASE ~ends
        BY <1>2, <1>3, <1>6, <1>12, <3>1, <3>3
      <3>4. QED
        BY <3>2, <3>3
    <2>3. QED
      BY <2>1, <2>2
  <1>18. /\ ended' \subseteq Int
         /\ ended' = {} => last' = carried'
         /\ ended' # {} => last' \in ended'
         /\ \A r \in ended' : r <= last' /\ r <= RoundOf(c)
    <2>1. CASE back
      BY <1>5, <2>1
    <2>2. CASE ~back /\ ~ends
      <3>1. nowEnded = {} /\ ended' = before /\ last' = was /\ carried' = held
        BY <1>2, <1>5, <2>2
      <3>2. \A r \in before : r <= RoundOf(c)
        <4>1. CASE enters
          BY <4>1 DEF before
        <4>2. CASE ~enters
          BY <1>6, <1>10, <1>11, <2>2, <4>2
        <4>3. QED
          BY <4>1, <4>2
      <3>3. QED
        BY <1>6, <3>1, <3>2
    <2>3. CASE ~back /\ ends
      <3>1. ended' = before \cup {round} /\ last' = round /\ round \in Int
        BY <1>2, <1>5, <1>12, <2>3
      <3>2. round <= RoundOf(c) /\ \A r \in before : r <= round /\ r <= RoundOf(c)
        <4>1. CASE enters
          BY <1>2, <1>9, <1>11, <2>3, <4>1 DEF before
        <4>2. CASE ~enters
          BY <1>2, <1>6, <1>9, <1>10, <1>11, <2>3, <4>2
        <4>3. QED
          BY <4>1, <4>2
      <3>3. QED
        BY <1>6, <3>1, <3>2
    <2>4. QED
      BY <2>1, <2>2, <2>3
  <1>19. RoundOf(previous)' = RoundOf(c)
    BY <1>1
  <1>20. RoundsAreInOrder'
    BY <1>1, <1>12, <1>17, <1>18, <1>19 DEF RoundsAreInOrder
  <1>21. RoundsAreReportedOnce'
    BY <1>15, <1>16 DEF RoundsAreReportedOnce
  <1>22. QED
    BY <1>20, <1>21 DEF RoundsInv

(***************************************************************************)
(* Assists.                                                                *)
(***************************************************************************)

AssistsInv == AssistsAreRemembered /\ AssistsAddUp

LEMMA SilentAssists ==
  ASSUME NEW types, Part(events', types), "PlayerAssist" \notin types
  PROVE  Assists(events') = 0
  BY OfAnother, AssistsOfBatch DEF Part

LEMMA FirstAssists ==
  ASSUME Types, MemoryIsCurrent, AssistsInv,
         NEW c \in Snapshots, ProcessFirst(c), RecordAssists(c)
  PROVE  AssistsInv'
  <1>1. /\ previous' = c /\ c # None /\ previous = None
        /\ memory'.assists = c.stats.assists
    BY FirstMemory, StreamOfSnapshots DEF ProcessFirst
  <1>2. memory.assists = None
    BY <1>1 DEF MemoryIsCurrent, ClearedMemory
  <1>3. Assists(events') = 0
    BY FirstPart, SilentAssists
  <1>4. credited = 0 /\ gained = 0 /\ gap \in BOOLEAN
    BY <1>1 DEF AssistsInv, AssistsAreRemembered
  <1>5. credited' = 0 /\ gained' = 0 /\ gap' \in BOOLEAN
    <2>1. ~Rose(memory.assists, c.stats.assists)
      BY <1>2 DEF Rose
    <2>2. credited' = 0
      BY <1>3, <1>4 DEF RecordAssists, Since
    <2>3. gained' = 0
      BY <1>4, <2>1 DEF RecordAssists, Since
    <2>4. gap' \in BOOLEAN
      BY <1>2, <1>4 DEF RecordAssists, Since
    <2>5. QED
      BY <2>2, <2>3, <2>4
  <1>6. QED
    BY <1>1, <1>5 DEF AssistsInv, AssistsAreRemembered, AssistsAddUp

LEMMA LeaveAssists ==
  ASSUME Types, AssistsInv, NEW c \in Snapshots, ProcessLeave(c), RecordAssists(c)
  PROVE  AssistsInv'
  <1>1. /\ previous' = c /\ c # None /\ c.stats.assists = None
        /\ memory'.assists = None
    BY StreamOfSnapshots DEF ProcessLeave, Leaves, ClearedMemory
  <1>2. Assists(events') = 0
    BY LeavePart, SilentAssists
  <1>3. credited' = 0 /\ gained' = 0 /\ gap' = FALSE
    BY <1>2, LeaveAttaches DEF RecordAssists, Since
  <1>4. AssistsAreRemembered'
    <2>1. credited' \in Int /\ gained' \in Int
      BY <1>3
    <2>2. gap' \in BOOLEAN
      BY <1>3
    <2>3. previous' # None /\ previous'.stats.assists = None /\ memory'.assists = None
      BY <1>1
    <2>4. QED
      BY <2>1, <2>2, <2>3, Zenon DEF AssistsAreRemembered
  <1>5. AssistsAddUp'
    BY <1>3 DEF AssistsAddUp
  <1>6. QED
    BY <1>4, <1>5 DEF AssistsInv

\* What a comparison credits.
LEMMA NextCredits ==
  ASSUME Types, MemoryIsCurrent, NEW c \in Snapshots, ProcessNext(c)
  PROVE  LET old == previous.stats.assists
             new == c.stats.assists
         IN  Assists(events') =
               IF Restores(MatchMemory(c), c)
               THEN IF Rose(memory.assists, new) THEN new - memory.assists ELSE 0
               ELSE IF previous.local /\ c.local /\ Rose(old, new) THEN new - old ELSE 0
  <1> DEFINE m == MatchMemory(c)
             old == previous.stats.assists
             new == c.stats.assists
             mine == previous.local /\ c.local
             restores == Restores(m, c)
             held == memory.assists
  <1>1. events' = Batch(c) /\ Distinct(events')
    BY BatchIsPart DEF Part, ProcessNext
  <1>2. Of(events', "PlayerAssist") =
                 (IF mine /\ Rose(old, new)
                  THEN {Measured("PlayerAssist", new - old, new)} ELSE {})
            \cup (IF restores /\ Rose(m.assists, new)
                  THEN {Measured("PlayerAssist", new - m.assists, new)} ELSE {})
    BY <1>1, BatchAssists
  <1>3. restores => ~mine /\ m.assists = held
    BY RestoresTheLost
  <1>4. old \in Integer /\ new \in Integer /\ held \in Integer
    <2>1. previous \in Snapshots
      BY DEF ProcessNext, Types
    <2>2. QED
      BY <2>1, SnapshotType DEF Stats, Types, MemoryOf
  <1> HIDE DEF m, old, new, mine, restores, held
  <1>5. /\ Rose(old, new) => new - old \in Int
        /\ Rose(held, new) => new - held \in Int
    BY <1>4 DEF Rose, Integer
  <1>6. CASE restores /\ Rose(held, new)
    <2>1. Of(events', "PlayerAssist") = {Measured("PlayerAssist", new - held, new)}
      BY <1>2, <1>3, <1>6
    <2>2. Assists(events') = new - held
      BY <1>1, <1>5, <1>6, <2>1, AssistsOfBatch
    <2>3. QED
      BY <1>6, <2>2 DEF m, old, new, mine, restores, held
  <1>7. CASE restores /\ ~Rose(held, new)
    <2>1. Of(events', "PlayerAssist") = {}
      BY <1>2, <1>3, <1>7
    <2>2. Assists(events') = 0
      BY <1>1, <2>1, AssistsOfBatch
    <2>3. QED
      BY <1>7, <2>2 DEF m, old, new, mine, restores, held
  <1>8. CASE ~restores /\ mine /\ Rose(old, new)
    <2>1. Of(events', "PlayerAssist") = {Measured("PlayerAssist", new - old, new)}
      BY <1>2, <1>8
    <2>2. Assists(events') = new - old
      BY <1>1, <1>5, <1>8, <2>1, AssistsOfBatch
    <2>3. QED
      BY <1>8, <2>2 DEF m, old, new, mine, restores, held
  <1>9. CASE ~restores /\ ~(mine /\ Rose(old, new))
    <2>1. Of(events', "PlayerAssist") = {}
      BY <1>2, <1>9
    <2>2. Assists(events') = 0
      BY <1>1, <2>1, AssistsOfBatch
    <2>3. QED
      BY <1>9, <2>2 DEF m, old, new, mine, restores, held
  <1>10. QED
    BY <1>6, <1>7, <1>8, <1>9

LEMMA NextAssistsKept ==
  ASSUME Types, MemoryIsCurrent, AssistsInv,
         NEW c \in Snapshots, ProcessNext(c), RecordAssists(c)
  PROVE  AssistsInv'
  <1> DEFINE m == MatchMemory(c)
             old == previous.stats.assists
             new == c.stats.assists
             held == memory.assists
             enters == Enters(previous, c)
             restores == Restores(m, c)
             credit == Assists(events')
             growth == IF Rose(held, new) THEN new - held ELSE 0
  <1>1. /\ previous' = c /\ c # None /\ previous # None /\ previous \in Snapshots
        /\ c.local \in BOOLEAN /\ previous.local \in BOOLEAN
    BY StreamOfSnapshots, SnapshotType DEF ProcessNext, Types
  <1>2. old \in Integer /\ new \in Integer /\ held \in Integer
    BY <1>1, SnapshotType DEF Stats, Types, MemoryOf
  <1>3. credit = IF restores THEN growth
                 ELSE IF previous.local /\ c.local /\ Rose(old, new) THEN new - old ELSE 0
    BY NextCredits
  <1>4. Attaches <=> enters
    BY NextAttaches
  <1>5. /\ credited' = (IF enters THEN 0 ELSE credited) + credit
        /\ gained' = IF enters THEN 0 ELSE gained + growth
        /\ gap' = IF enters THEN FALSE ELSE gap \/ (held # None /\ new = None /\ ~memory'.lost)
    BY <1>4 DEF RecordAssists, Since, Hides
  <1>6. /\ credited \in Int /\ gained \in Int /\ gap \in BOOLEAN
        /\ credited <= gained /\ (~gap => credited = gained)
        /\ old # None => held = old
        /\ ~gap /\ held # None => old # None \/ memory.lost
    BY <1>1 DEF AssistsInv, AssistsAreRemembered, AssistsAddUp
  <1>7. memory'.assists = IF c.local THEN Or(new, m.assists) ELSE m.assists
    BY NextMemory
  <1>8. /\ enters => m.assists = None /\ old = None /\ ~restores
        /\ ~enters => m.assists = held
        /\ memory.lost /\ c.local /\ ~enters => restores
    <2>1. enters => ~restores
      BY RestoresTheLost
    <2>2. enters => m.assists = None
      BY MatchMemoryFields DEF ClearedMemory
    <2>3. enters => old = None
      BY <1>1, StreamOfSnapshots DEF Enters
    <2>4. ~enters => m.assists = held
      BY MatchMemoryFields
    <2>5. memory.lost /\ c.local /\ ~enters => restores
      BY MatchMemoryFields DEF Restores, Types
    <2>6. QED
      BY <2>1, <2>2, <2>3, <2>4, <2>5
  <1>9. /\ new # None => c.local
        /\ old # None => previous.local
    BY <1>1, StreamOfSnapshots
  <1> HIDE DEF m, old, new, held, enters, restores, credit
  <1>10. growth \in Int /\ growth >= 0
    BY <1>2 DEF Rose, Integer
  \* What is credited is the growth, or nothing in a gap.
  <1>11. ~enters => credit = growth \/ (credit = 0 /\ gap)
    <2>1. SUFFICES ASSUME ~enters, ~restores
                   PROVE  credit = growth \/ (credit = 0 /\ gap)
      BY <1>3
    <2>2. CASE new = None
      <3>1. ~Rose(old, new) /\ ~Rose(held, new)
        BY <2>2 DEF Rose
      <3>2. QED
        BY <1>3, <2>1, <3>1
    <2>3. CASE new # None /\ old # None
      BY <1>3, <1>6, <1>9, <2>1, <2>3
    <2>4. CASE new # None /\ old = None
      <3>1. credit = 0
        BY <1>3, <2>1, <2>4 DEF Rose
      <3>2. CASE held = None
        BY <3>1, <3>2 DEF Rose
      <3>3. CASE held # None
        BY <1>6, <1>8, <1>9, <2>1, <2>4, <3>1, <3>3
      <3>4. QED
        BY <3>2, <3>3
    <2>5. QED
      BY <2>2, <2>3, <2>4
  <1>12. enters => credit = 0
    BY <1>3, <1>8 DEF Rose
  <1> HIDE DEF growth
  <1>13. /\ credited' \in Int /\ gained' \in Int /\ gap' \in BOOLEAN
         /\ credited' <= gained' /\ (~gap' => credited' = gained')
    <2>1. CASE enters
      BY <1>5, <1>12, <2>1
    <2>2. CASE ~enters
      <3>1. credit = growth \/ (credit = 0 /\ gap)
        BY <1>11, <2>2
      <3>2. credit \in Int
        BY <1>10, <3>1
      <3>3. /\ credited' = credited + credit /\ gained' = gained + growth
            /\ gap' \in BOOLEAN /\ (gap => gap')
        BY <1>5, <1>6, <2>2
      <3>4. QED
        BY <1>6, <1>10, <3>1, <3>2, <3>3
    <2>3. QED
      BY <2>1, <2>2
  <1>14. new # None => memory'.assists = new
    BY <1>7, <1>9 DEF Or
  <1>15. ~gap' /\ memory'.assists # None => new # None \/ memory'.lost
    BY <1>5, <1>7, <1>8 DEF Or
  <1>16. AssistsAreRemembered'
    BY <1>1, <1>13, <1>14, <1>15 DEF AssistsAreRemembered, new
  <1>17. QED
    BY <1>13, <1>16 DEF AssistsInv, AssistsAddUp

(***************************************************************************)
(* The invariant is inductive, and what it implies.                        *)
(***************************************************************************)

LEMMA InitInv ==
  Init => Inv
  <1> SUFFICES ASSUME Init PROVE Inv
    OBVIOUS
  <1>1. /\ previous = None /\ memory = ClearedMemory /\ events = <<>>
        /\ ended = {} /\ last = None /\ decided = {} /\ carried = None /\ repeated = FALSE
        /\ credited = 0 /\ gained = 0 /\ gap = FALSE
    BY DEF Init, DetectorInit
  <1>2. EventTypes(events) = {} /\ Distinct(events)
    BY <1>1, EmptyPart DEF Part
  <1>3. /\ memory.endedRound = None /\ memory.lost = FALSE
        /\ memory \in MemoryOf(memory.team)
    BY <1>1, ClearedType DEF ClearedMemory
  <1>4. Types
    BY <1>1, <1>2, <1>3 DEF Types
  <1>5. MemoryIsCurrent
    BY <1>1 DEF MemoryIsCurrent
  <1>6. RoundsAreInOrder /\ RoundsAreReportedOnce
    BY <1>1, <1>3 DEF RoundsAreInOrder, RoundsAreReportedOnce
  <1>7. AssistsAreRemembered /\ AssistsAddUp
    <2>1. AssistsAreRemembered
      <3>1. credited \in Int /\ gained \in Int
        BY <1>1
      <3>2. gap \in BOOLEAN
        BY <1>1
      <3>3. QED
        BY <1>1, <3>1, <3>2, Zenon DEF AssistsAreRemembered
    <2>2. AssistsAddUp
      BY <1>1 DEF AssistsAddUp
    <2>3. QED
      BY <2>1, <2>2
  <1>8. QED
    BY <1>4, <1>5, <1>6, <1>7 DEF Inv

LEMMA NextInv ==
  Inv /\ [Next]_vars => Inv'
  <1> SUFFICES ASSUME Inv, [Next]_vars PROVE Inv'
    OBVIOUS
  <1> USE DEF Inv
  <1>1. RoundsInv /\ AssistsInv
    BY DEF RoundsInv, AssistsInv
  <1>2. ASSUME NEW c \in Snapshots, Receive(c)
        PROVE  Inv'
    <2>1. RecordRounds(c) /\ RecordAssists(c)
      BY <1>2 DEF Receive, Record
    <2>2. CASE ProcessFirst(c)
      BY <1>1, <2>1, <2>2, FirstKeeps, FirstRounds, FirstAssists DEF RoundsInv, AssistsInv
    <2>3. CASE ProcessLeave(c)
      BY <1>1, <2>1, <2>3, LeaveKeeps, LeaveRounds, LeaveAssists DEF RoundsInv, AssistsInv
    <2>4. CASE ProcessNext(c)
      BY <1>1, <2>1, <2>4, NextKeeps, NextRoundsKept, NextAssistsKept DEF RoundsInv, AssistsInv
    <2>5. QED
      BY <1>2, <2>2, <2>3, <2>4 DEF Receive, Process
  <1>3. CASE ReceiveInvalid
    <2>1. Types' /\ MemoryIsCurrent'
      BY <1>3, InvalidKeeps DEF ReceiveInvalid
    <2>2. /\ RoundsAreInOrder' /\ RoundsAreReportedOnce'
          /\ AssistsAreRemembered' /\ AssistsAddUp'
      BY <1>3 DEF ReceiveInvalid, ProcessInvalid, historyVars, roundVars, assistVars,
                  RoundsAreInOrder, RoundsAreReportedOnce, AssistsAreRemembered, AssistsAddUp,
                  RoundOf
    <2>3. QED
      BY <2>1, <2>2
  <1>4. CASE UNCHANGED vars
    BY <1>4 DEF vars, Types, MemoryIsCurrent, RoundsAreInOrder, RoundsAreReportedOnce,
                AssistsAreRemembered, AssistsAddUp, EventTypes, Distinct, RoundOf
  <1>5. QED
    BY <1>2, <1>3, <1>4 DEF Next

LEMMA Invariance ==
  Spec => []Inv
  BY InitInv, NextInv, PTL DEF Spec

\* The detector's flags are consistent, and it reports only its event types.
THEOREM TypeCorrect ==
  Spec => []TypeOK
  <1>1. Inv => TypeOK
    BY DEF Inv, Types, TypeOK, MemoryOf
  <1>2. QED
    BY <1>1, Invariance, PTL

\* No snapshot reports anything twice (lines 187-207 against 209-286).
THEOREM NothingIsReportedTwice ==
  Spec => []NoDoubleReport
  <1>1. Inv => NoDoubleReport
    BY DEF Inv, Types, NoDoubleReport, Distinct
  <1>2. QED
    BY <1>1, Invariance, PTL

\* A repeated snapshot reports nothing, in any state the detector reaches.
THEOREM RepeatsAreSilent ==
  Spec => []RepeatIsSilent
  <1>1. Inv => RepeatIsSilent
    BY RepeatSaysNothing DEF Inv, RepeatIsSilent
  <1>2. QED
    BY <1>1, Invariance, PTL

\* A round ends once and is decided once, in every stream of snapshots.
THEOREM RoundsAreReported ==
  Spec => []RoundsAreReportedOnce
  <1>1. Inv => RoundsAreReportedOnce
    BY DEF Inv
  <1>2. QED
    BY <1>1, Invariance, PTL

\* The assists reported are the growth of the counter, in every stream.
THEOREM AssistsAreReported ==
  Spec => []AssistsAddUp
  <1>1. Inv => AssistsAddUp
    BY DEF Inv
  <1>2. QED
    BY <1>1, Invariance, PTL

\* The reports about the local player implement LocalPresence.
THEOREM PresenceIsReported ==
  Spec => PresenceReports
  <1>1. Init => Presence!Init
    BY DEF Init, DetectorInit, Presence!Init, EventTypes
  <1>2. Inv /\ [Next]_vars => [Presence!Next]_(Presence!presenceVars)
    <2> SUFFICES ASSUME Inv, [Next]_vars
                 PROVE  [Presence!Next]_(Presence!presenceVars)
      OBVIOUS
    <2>1. ASSUME PresenceActions
          PROVE  Presence!Next
      BY <2>1 DEF PresenceActions, PresenceNow, Report, PresenceTypes,
                  Presence!Next, Presence!Attach, Presence!Detach, Presence!Acquire,
                  Presence!Lose, Presence!Restore, Presence!Silence
    <2>2. ASSUME NEW c \in Snapshots, Receive(c)
          PROVE  PresenceActions
      BY <2>2, FirstReports, LeaveReports, NextReports DEF Inv, Receive, Process
    <2>3. CASE ReceiveInvalid
      BY <2>1, <2>3, InvalidReports DEF ReceiveInvalid
    <2>4. CASE UNCHANGED vars
      BY <2>4 DEF vars, Presence!presenceVars, EventTypes
    <2>5. QED
      BY <2>1, <2>2, <2>3, <2>4 DEF Next
  <1>3. QED
    BY <1>1, <1>2, Invariance, PTL DEF Spec, PresenceReports, Presence!Spec

=============================================================================

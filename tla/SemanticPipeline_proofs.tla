---------------------- MODULE SemanticPipeline_proofs ----------------------
(***************************************************************************)
(* What clutches, aces and counts promise, for every sequence of payloads  *)
(* and supplements, all delays and any limit of age.                       *)
(***************************************************************************)
EXTENDS SemanticPipeline, EventDetector_proofs, FiniteSetTheorems

(***************************************************************************)
(* Payloads and the factual events they cause.                             *)
(***************************************************************************)

LEMMA GameOfSnapshots ==
  ASSUME NEW s \in Snapshots
  PROVE  /\ s # None
         /\ s.map_name = None => /\ s.round_phase # "live"
                                 /\ ~SupportedRoundModeForAce(s.map_mode)
         /\ s.team \in {"CT", "T", None}
         /\ s.local \in BOOLEAN
  <1>1. PICK payload \in Payloads : s = NormalizeGsi(payload)
    BY DEF Snapshots
  <1>2. /\ s.map_name = payload.map_name /\ s.map_mode = payload.map_mode
        /\ s.round_phase = payload.round_phase /\ s.team = payload.team
    BY <1>1 DEF NormalizeGsi
  <1>3. QED
    BY <1>2, GameAssumption, NoneAssumption, SnapshotType

Facts == EventTypes(events')

LEMMA FactsOfPayload ==
  ASSUME NEW s \in Snapshots, Process(s)
  PROVE  /\ previous' = s /\ Map' = s.map_name
         /\ "MatchLeft" \in Facts <=> Map # None /\ s.map_name = None
         /\ "MatchEntered" \in Facts <=> Map = None /\ s.map_name # None
         /\ "RoundStarted" \in Facts =>
              /\ previous # None /\ previous.round_phase = "freezetime"
              /\ s.round_phase = "live"
  <1>1. s # None /\ previous' = s
    BY GameOfSnapshots DEF Process, ProcessFirst, ProcessLeave, ProcessNext
  <1>2. CASE ProcessFirst(s)
    <2>1. /\ "MatchLeft" \notin Facts /\ "RoundStarted" \notin Facts
          /\ "MatchEntered" \in Facts <=> s.map_name # None
      BY <1>2, FirstTypes DEF Facts
    <2>2. QED
      BY <1>1, <1>2, <2>1 DEF ProcessFirst, Map
  <1>3. CASE ProcessLeave(s)
    <2>1. Facts = {"MatchLeft"}
      BY <1>3, LeaveTypes DEF Facts
    <2>2. QED
      BY <1>1, <1>3, <2>1 DEF ProcessLeave, Leaves, Map
  <1>4. CASE ProcessNext(s)
    <2>1. Facts = EventTypes(Batch(s)) /\ previous # None /\ ~Leaves(previous, s)
      BY <1>4 DEF ProcessNext, Facts, EventTypes
    <2>2. /\ "MatchLeft" \notin Facts
          /\ "MatchEntered" \in Facts <=> Enters(previous, s)
      <3> DEFINE m == MatchMemory(s)
      <3>1. Facts \cap PresenceTypes =
                    (IF Enters(previous, s) THEN {"MatchEntered"} ELSE {})
               \cup (IF m.acquired /\ MayAcquire(s) THEN {"LocalPlayerAcquired"} ELSE {})
               \cup (IF Loses(m, s) THEN {"LocalPlayerLost"} ELSE {})
               \cup (IF Restores(m, s) THEN {"LocalPlayerRestored"} ELSE {})
        BY <2>1, BatchPresence, Zenon
      <3>2. {"MatchLeft", "MatchEntered"} \subseteq PresenceTypes
        BY DEF PresenceTypes
      <3> HIDE DEF m
      <3>3. QED
        BY <3>1, <3>2
    <2>3. "RoundStarted" \in Facts => /\ previous.round_phase = "freezetime"
                                      /\ s.round_phase = "live"
      BY <2>1, BatchStarts, Zenon
    <2>4. QED
      BY <1>1, <2>1, <2>2, <2>3 DEF Enters, Leaves, Map
  <1>5. QED
    BY <1>2, <1>3, <1>4 DEF Process

(***************************************************************************)
(* The operators on the state of a resolver, field by field.  Its domain   *)
(* is all that has to be known of the record.                              *)
(***************************************************************************)

Fields ==
  {"maxAge", "state", "us", "supplement", "lastSupplementUs", "team", "alive", "acquired",
   "known", "ended", "start", "enemyTotal", "revision", "rosterChanged", "aceEmitted",
   "clutchActive", "clutchEnemy", "ctx", "out"}

ContextFields ==
  {"lifecycle", "acquired", "alive", "counts", "clutchActive", "clutchOpponents",
   "rosterChanged"}

IsResolver(r) == DOMAIN r = Fields /\ DOMAIN r.ctx = ContextFields

LEMMA FreshFields ==
  ASSUME NEW maxAge
  PROVE  LET q == Fresh(maxAge)
         IN  /\ IsResolver(q)
             /\ q.maxAge = maxAge /\ q.out = <<>>
             /\ q.state = None /\ q.supplement = None /\ q.team = None
             /\ q.us = 0 /\ q.start = 0
             /\ q.known = FALSE /\ q.ended = FALSE
             /\ q.rosterChanged = FALSE /\ q.aceEmitted = FALSE
             /\ q.enemyTotal = None /\ q.clutchActive = FALSE /\ q.clutchEnemy = None
             /\ q.ctx.counts = None /\ q.ctx.clutchActive = FALSE
             /\ q.ctx.clutchOpponents = None /\ q.ctx.rosterChanged = FALSE
  BY DEF Fresh, IsResolver, Fields, ContextFields

LEMMA EmitFields ==
  ASSUME NEW r, IsResolver(r), NEW type, NEW from, NEW value
  PROVE  LET q == Emit(r, type, from, value)
         IN  /\ IsResolver(q)
             /\ \A f \in Fields \ {"out"} : q[f] = r[f]
             /\ q.out = Append(r.out, [type |-> type, from |-> from, value |-> value])
  BY DEF Emit, IsResolver, Fields

LEMMA LifecycleFields ==
  ASSUME NEW r, IsResolver(r)
  PROVE  LET q == UpdateLifecycleContext(r)
         IN  /\ IsResolver(q)
             /\ \A f \in Fields \ {"ctx"} : q[f] = r[f]
             /\ \A f \in ContextFields \ {"lifecycle", "acquired", "alive"} : q.ctx[f] = r.ctx[f]
  BY DEF UpdateLifecycleContext, IsResolver, Fields, ContextFields

LEMMA ContextUpdated ==
  ASSUME NEW r, IsResolver(r)
  PROVE  LET q == UpdateContext(r)
         IN  /\ IsResolver(q)
             /\ \A f \in Fields \ {"ctx"} : q[f] = r[f]
             /\ \A f \in ContextFields \ {"counts"} : q.ctx[f] = r.ctx[f]
             /\ q.ctx.counts = Perspective(r)
  BY DEF UpdateContext, IsResolver, Fields, ContextFields

LEMMA LearnFields ==
  ASSUME NEW r, IsResolver(r), NEW s, NEW us, NEW facts
  PROVE  LET q == Learn(r, s, us, facts)
         IN  /\ IsResolver(q)
             /\ q.state = s /\ q.us = us /\ q.out = <<>>
             /\ q.team = IF s.local /\ s.team # None THEN s.team ELSE r.team
             /\ \A f \in Fields \ {"out", "state", "us", "acquired", "team", "alive"} : q[f] = r[f]
  BY DEF Learn, IsResolver, Fields

LEMMA BaselineFields ==
  ASSUME NEW r, IsResolver(r)
  PROVE  LET q == EstablishRoundBaseline(r)
         IN  /\ IsResolver(q)
             /\ \A f \in Fields \ {"enemyTotal", "revision"} : q[f] = r[f]
             /\ q.enemyTotal # r.enemyTotal =>
                  /\ Perspective(r) # None
                  /\ q.revision = r.supplement.revision
                  /\ RequireRevision => q.revision # None
  BY DEF EstablishRoundBaseline, IsResolver, Fields

\* The state of a round that begins, before its baseline.
Begun(r) ==
  [r EXCEPT !.known = TRUE, !.ended = FALSE, !.start = r.us,
            !.enemyTotal = None, !.revision = None,
            !.rosterChanged = FALSE, !.aceEmitted = FALSE,
            !.clutchActive = FALSE, !.clutchEnemy = None,
            !.ctx.rosterChanged = FALSE, !.ctx.clutchActive = FALSE,
            !.ctx.clutchOpponents = None, !.ctx.counts = None]

RoundFields ==
  {"known", "ended", "start", "enemyTotal", "revision", "rosterChanged", "aceEmitted",
   "clutchActive", "clutchEnemy", "ctx"}

LEMMA BegunFields ==
  ASSUME NEW r, IsResolver(r)
  PROVE  LET q == Begun(r)
         IN  /\ IsResolver(q)
             /\ \A f \in Fields \ RoundFields : q[f] = r[f]
             /\ q.known = TRUE /\ q.ended = FALSE /\ q.start = r.us
             /\ q.enemyTotal = None /\ q.rosterChanged = FALSE /\ q.aceEmitted = FALSE
             /\ q.clutchActive = FALSE /\ q.clutchEnemy = None
             /\ q.ctx.rosterChanged = FALSE /\ q.ctx.clutchActive = FALSE
             /\ q.ctx.clutchOpponents = None /\ q.ctx.counts = None
  <1> DEFINE q == Begun(r)
  <1>1. IsResolver(q)
    BY ZenonT(30) DEF Begun, IsResolver, Fields, ContextFields
  <1>2. \A f \in Fields \ RoundFields : q[f] = r[f]
    BY ZenonT(30) DEF Begun, IsResolver, Fields, RoundFields
  <1>3. /\ q.known = TRUE /\ q.ended = FALSE /\ q.start = r.us
        /\ q.enemyTotal = None /\ q.rosterChanged = FALSE /\ q.aceEmitted = FALSE
        /\ q.clutchActive = FALSE /\ q.clutchEnemy = None
        /\ q.ctx.rosterChanged = FALSE /\ q.ctx.clutchActive = FALSE
        /\ q.ctx.clutchOpponents = None /\ q.ctx.counts = None
    BY ZenonT(30) DEF Begun, IsResolver, Fields, ContextFields
  <1>4. QED
    BY <1>1, <1>2, <1>3

LEMMA RosterFields ==
  ASSUME NEW r, IsResolver(r)
  PROVE  LET q == ObserveRoster(r)
             seen == Perspective(r)
         IN  /\ IsResolver(q)
             /\ \A f \in Fields \ {"ctx", "rosterChanged"} : q[f] = r[f]
             /\ \A f \in ContextFields \ {"rosterChanged"} : q.ctx[f] = r.ctx[f]
             /\ \/ q.rosterChanged = r.rosterChanged /\ q.ctx.rosterChanged = r.ctx.rosterChanged
                \/ q.rosterChanged \in BOOLEAN /\ q.ctx.rosterChanged = q.rosterChanged
             /\ r.rosterChanged = TRUE => q.rosterChanged = TRUE
             /\ r.known /\ r.enemyTotal # None /\ seen # None /\ q.rosterChanged = FALSE =>
                  (r.revision # None /\ r.supplement.revision # None =>
                     r.supplement.revision = r.revision)
  BY DEF ObserveRoster, IsResolver, Fields, ContextFields

EndClutchFields(r, q) ==
  /\ \A f \in Fields \ {"clutchActive", "clutchEnemy", "ctx", "out"} : q[f] = r[f]
  /\ \A f \in ContextFields \ {"clutchActive", "clutchOpponents"} : q.ctx[f] = r.ctx[f]

LEMMA EndFields ==
  ASSUME NEW r, IsResolver(r), r.clutchActive
  PROVE  LET q == EndClutch(r)
         IN  /\ IsResolver(q)
             /\ EndClutchFields(r, q)
             /\ q.clutchActive = FALSE /\ q.clutchEnemy = None
             /\ q.ctx.clutchActive = FALSE /\ q.ctx.clutchOpponents = None
             /\ q.out = Append(r.out, [type |-> "ClutchEnded", from |-> None, value |-> r.clutchEnemy])
  <1> DEFINE e == Emit(r, "ClutchEnded", None, r.clutchEnemy)
             q == [e EXCEPT !.clutchActive = FALSE, !.clutchEnemy = None,
                            !.ctx.clutchActive = FALSE, !.ctx.clutchOpponents = None]
  <1>1. EndClutch(r) = q
    BY DEF EndClutch
  <1>2. /\ IsResolver(e)
        /\ \A f \in Fields \ {"out"} : e[f] = r[f]
        /\ e.out = Append(r.out, [type |-> "ClutchEnded", from |-> None, value |-> r.clutchEnemy])
    BY EmitFields
  <1> HIDE DEF e
  <1>3. /\ IsResolver(q)
        /\ \A f \in Fields \ {"clutchActive", "clutchEnemy", "ctx"} : q[f] = e[f]
        /\ \A f \in ContextFields \ {"clutchActive", "clutchOpponents"} : q.ctx[f] = e.ctx[f]
        /\ q.clutchActive = FALSE /\ q.clutchEnemy = None
        /\ q.ctx.clutchActive = FALSE /\ q.ctx.clutchOpponents = None
    BY <1>2 DEF IsResolver, Fields, ContextFields
  <1> HIDE DEF q
  <1>4. QED
    BY <1>1, <1>2, <1>3 DEF EndClutchFields, Fields, ContextFields

(***************************************************************************)
(* What the events of a call tell.                                         *)
(***************************************************************************)

IsList(out) == out \in Seq(Range(out))

\* Told without its recursion, for the three events a call can emit.
LEMMA ToldInTurn ==
  ASSUME NEW before, NEW out, IsList(out), Len(out) <= 3
  PROVE  /\ Len(out) = 0 => Told(before, out) = before
         /\ Len(out) = 1 => Told(before, out) = TellClutch(before, out[1])
         /\ Len(out) = 2 =>
              Told(before, out) = TellClutch(TellClutch(before, out[1]), out[2])
         /\ Len(out) = 3 =>
              Told(before, out) = TellClutch(TellClutch(TellClutch(before, out[1]), out[2]), out[3])
  <1> DEFINE n == Len(out)
             T(told, e) == TellClutch(told, e)
             body(f, i) == IF i = 0 THEN before ELSE T(f[i - 1], out[i])
             told == CHOOSE f : f = [i \in 0 .. n |-> body(f, i)]
             t1 == T(before, out[1])
             t2 == T(t1, out[2])
             t3 == T(t2, out[3])
             g == [i \in 0 .. n |-> IF i = 0 THEN before ELSE IF i = 1 THEN t1
                                    ELSE IF i = 2 THEN t2 ELSE t3]
  <1>1. Told(before, out) = told[n]
    BY Zenon DEF Told
  <1>2. n \in 0 .. 3
    <2>1. n \in Nat
      BY LenProperties DEF IsList
    <2>2. n <= 3
      OBVIOUS
    <2> HIDE DEF n
    <2>3. QED
      BY <2>1, <2>2
  <1> HIDE DEF T, n
  <1>3. g = [i \in 0 .. n |-> body(g, i)]
    <2>1. SUFFICES ASSUME NEW i \in 0 .. n
                   PROVE  g[i] = body(g, i)
      BY Zenon
    <2>2. i \in 0 .. 3
      BY <1>2
    <2>3. CASE i = 0
      BY <2>3
    <2>4. CASE i = 1
      BY <1>2, <2>4
    <2>5. CASE i = 2
      BY <1>2, <2>5
    <2>6. CASE i = 3
      BY <1>2, <2>6
    <2>7. QED
      BY <2>2, <2>3, <2>4, <2>5, <2>6
  <1> HIDE DEF g
  <1>4. \E f : f = [i \in 0 .. n |-> body(f, i)]
    BY <1>3, Zenon
  <1>5. told = [i \in 0 .. n |-> body(told, i)]
    BY <1>4, Zenon
  <1> HIDE DEF told
  <1>6. told[0] = before
    BY <1>2, <1>5
  <1>7. n >= 1 => told[1] = t1
    BY <1>2, <1>5, <1>6
  <1>8. n >= 2 => told[2] = t2
    BY <1>2, <1>5, <1>7
  <1>9. n >= 3 => told[3] = t3
    BY <1>2, <1>5, <1>8
  <1>10. QED
    BY <1>1, <1>2, <1>6, <1>7, <1>8, <1>9 DEF n, T

LEMMA AppendList ==
  ASSUME NEW out, IsList(out), NEW e
  PROVE  /\ IsList(Append(out, e)) /\ Len(Append(out, e)) = Len(out) + 1
         /\ \A i \in 1 .. Len(out) : Append(out, e)[i] = out[i]
         /\ Append(out, e)[Len(out) + 1] = e
         /\ Len(out) \in Nat
  <1> DEFINE all == Range(out) \cup {e}
             more == Append(out, e)
  <1>1. out \in Seq(all) /\ e \in all
    BY SeqMonotonic DEF IsList
  <1>2. /\ more \in Seq(all) /\ Len(more) = Len(out) + 1
        /\ \A i \in 1 .. Len(out) : more[i] = out[i]
        /\ more[Len(out) + 1] = e /\ Len(out) \in Nat
    BY <1>1, AppendProperties
  <1>3. more \in Seq(Range(more))
    BY <1>2, SeqOfRange, Zenon
  <1>4. QED
    BY <1>2, <1>3 DEF IsList

LEMMA ToldOneMore ==
  ASSUME NEW before, NEW out, IsList(out), Len(out) <= 2, NEW e
  PROVE  Told(before, Append(out, e)) = TellClutch(Told(before, out), e)
  <1> DEFINE more == Append(out, e)
  <1>1. /\ IsList(more) /\ Len(more) = Len(out) + 1
        /\ \A i \in 1 .. Len(out) : more[i] = out[i]
        /\ more[Len(out) + 1] = e
        /\ Len(out) \in Nat
    BY AppendList, Zenon
  <1> HIDE DEF more
  <1> DEFINE T(told, f) == TellClutch(told, f)
  <1>2. Len(more) <= 3 /\ Len(out) <= 3 /\ (Len(out) = 0 \/ Len(out) = 1 \/ Len(out) = 2)
    <2> DEFINE n == Len(out)
    <2>1. n \in Nat /\ n <= 2 /\ Len(more) = n + 1
      BY <1>1
    <2> HIDE DEF n
    <2>2. n = 0 \/ n = 1 \/ n = 2
      BY <2>1
    <2>3. n <= 3 /\ n + 1 <= 3
      BY <2>1
    <2>4. QED
      BY <2>1, <2>2, <2>3 DEF n
  <1>3. /\ Len(out) = 0 => Told(before, out) = before
        /\ Len(out) = 1 => Told(before, out) = T(before, out[1])
        /\ Len(out) = 2 => Told(before, out) = T(T(before, out[1]), out[2])
    BY <1>1, <1>2, ToldInTurn
  <1>4. /\ Len(more) = 1 => Told(before, more) = T(before, more[1])
        /\ Len(more) = 2 => Told(before, more) = T(T(before, more[1]), more[2])
        /\ Len(more) = 3 => Told(before, more) = T(T(T(before, more[1]), more[2]), more[3])
    BY <1>1, <1>2, ToldInTurn
  <1> HIDE DEF T
  <1>5. CASE Len(out) = 0
    <2>1. Len(more) = 1 /\ more[1] = e
      BY <1>1, <1>5
    <2>2. QED
      BY <1>3, <1>4, <1>5, <2>1 DEF more, T
  <1>6. CASE Len(out) = 1
    <2>1. Len(more) = 2 /\ more[1] = out[1] /\ more[2] = e
      BY <1>1, <1>6
    <2>2. QED
      BY <1>3, <1>4, <1>6, <2>1 DEF more, T
  <1>7. CASE Len(out) = 2
    <2>1. Len(more) = 3 /\ more[1] = out[1] /\ more[2] = out[2] /\ more[3] = e
      BY <1>1, <1>7
    <2>2. QED
      BY <1>3, <1>4, <1>7, <2>1 DEF more, T
  <1>8. QED
    BY <1>2, <1>5, <1>6, <1>7

LEMMA AcesOneMore ==
  ASSUME NEW out, IsList(out), NEW e
  PROVE  /\ AcesIn(out) \in Nat
         /\ AcesIn(Append(out, e)) = IF e.type = "Ace" THEN AcesIn(out) + 1 ELSE AcesIn(out)
  <1> DEFINE more == Append(out, e)
             found == {i \in DOMAIN out : out[i].type = "Ace"}
             foundInMore == {i \in DOMAIN more : more[i].type = "Ace"}
             n == Len(out)
  <1>1. /\ IsList(more) /\ Len(more) = n + 1 /\ n \in Nat
        /\ \A i \in 1 .. n : more[i] = out[i]
        /\ more[n + 1] = e
    BY AppendList
  <1>2. DOMAIN out = 1 .. n /\ DOMAIN more = 1 .. n + 1
    BY <1>1, LenProperties DEF IsList
  <1>3. IsFiniteSet(found) /\ n + 1 \notin found
    <2>1. IsFiniteSet(1 .. n)
      BY <1>1, FS_Interval, 1 \in Int, n \in Int
    <2>2. found \in SUBSET (1 .. n)
      BY <1>2
    <2>3. QED
      BY <1>1, <2>1, <2>2, FS_Subset
  <1>4. AcesIn(out) = Cardinality(found) /\ AcesIn(more) = Cardinality(foundInMore)
    BY DEF AcesIn
  <1> HIDE DEF more, n
  <1>5. foundInMore = IF e.type = "Ace" THEN found \cup {n + 1} ELSE found
    BY <1>1, <1>2
  <1> HIDE DEF found, foundInMore
  <1>6. QED
    BY <1>3, <1>4, <1>5, FS_AddElement, FS_CardinalityType DEF more

LEMMA NothingTold ==
  /\ IsList(<<>>) /\ Len(<<>>) = 0 /\ AcesIn(<<>>) = 0
  /\ \A before : Told(before, <<>>) = before
  <1>1. IsList(<<>>) /\ Len(<<>>) = 0
    BY DEF IsList, Range
  <1>2. AcesIn(<<>>) = 0
    <2>1. {i \in DOMAIN <<>> : <<>>[i].type = "Ace"} = {}
      OBVIOUS
    <2>2. QED
      BY <2>1, FS_EmptySet DEF AcesIn
  <1>3. QED
    BY <1>1, <1>2, ToldInTurn

\* Up to k events of a call tell a reader of the clutch told, and of n aces.
Tells(out, k, before, told, n) ==
  /\ IsList(out) /\ Len(out) \in 0 .. k
  /\ Told(before, out) = told /\ AcesIn(out) = n

LEMMA NothingTells ==
  ASSUME NEW before
  PROVE  Tells(<<>>, 0, before, before, 0)
  BY NothingTold DEF Tells

LEMMA OneMoreTells ==
  ASSUME NEW out, NEW k \in {0, 1, 2}, NEW before, NEW told, NEW n,
         Tells(out, k, before, told, n)
  PROVE  /\ Tells(out, k + 1, before, told, n)
         /\ \A e : Tells(Append(out, e), k + 1, before, TellClutch(told, e),
                       IF e.type = "Ace" THEN n + 1 ELSE n)
  <1>1. Len(out) \in 0 .. k /\ Len(out) <= 2
    BY DEF Tells
  <1>2. Tells(out, k + 1, before, told, n)
    BY DEF Tells
  <1>3. ASSUME NEW e
        PROVE  Tells(Append(out, e), k + 1, before, TellClutch(told, e),
                     IF e.type = "Ace" THEN n + 1 ELSE n)
    <2>1. IsList(Append(out, e)) /\ Len(Append(out, e)) = Len(out) + 1
      BY AppendList DEF Tells
    <2>2. Len(Append(out, e)) \in 0 .. (k + 1)
      BY <1>1, <2>1
    <2>3. Told(before, Append(out, e)) = TellClutch(told, e)
      BY <1>1, ToldOneMore DEF Tells
    <2>4. AcesIn(Append(out, e)) = IF e.type = "Ace" THEN n + 1 ELSE n
      BY AcesOneMore DEF Tells
    <2>5. QED
      BY <2>1, <2>2, <2>3, <2>4 DEF Tells
  <1>4. QED
    BY <1>2, <1>3

(***************************************************************************)
(* What is known of a resolver between any two of its operations.          *)
(***************************************************************************)

Published == {item.teams : item \in Supplements}

WellFormed(r) ==
  /\ IsResolver(r)
  /\ r.maxAge \in Nat \cup {None}
  /\ r.us \in Nat /\ r.start \in Nat /\ r.start <= r.us
  /\ r.known \in BOOLEAN /\ r.ended \in BOOLEAN /\ r.rosterChanged \in BOOLEAN
  /\ r.aceEmitted \in BOOLEAN /\ r.clutchActive \in BOOLEAN
  /\ r.team \in {"CT", "T", None}
  /\ r.supplement # None => /\ r.supplement.us \in Nat
                            /\ r.supplement.teams \in Published
                            /\ ValidTeamCounts(r.supplement.teams)

ContextAgrees(r) ==
  /\ r.clutchActive <=> r.clutchEnemy # None
  /\ r.ctx.clutchActive = r.clutchActive
  /\ r.ctx.clutchOpponents = r.clutchEnemy
  /\ r.ctx.rosterChanged = r.rosterChanged

\* Before its first payload a resolver knows no round and shows no counts.
BeginsUnknowing(r) == r.state = None => ~r.known /\ r.ctx.counts = None

\* What a clutch that is on rests on, fresh or not.
ClutchHasGrounds(r) ==
  r.clutchActive => /\ r.known /\ ~r.ended /\ r.team # None
                    /\ r.supplement # None /\ r.supplement.us >= r.start

BaselineHasGrounds(r) ==
  r.enemyTotal # None => r.team # None /\ (RequireRevision => r.revision # None)

Sound(r) ==
  /\ WellFormed(r)
  /\ ContextAgrees(r)
  /\ BeginsUnknowing(r)
  /\ ClutchHasGrounds(r)
  /\ BaselineHasGrounds(r)

\* The clutch is the one that state and supplement show together.
ClutchIsOn(r) ==
  LET seen == Perspective(r)
  IN  /\ r.state.round_phase = "live" /\ r.alive = TRUE
      /\ seen.local_alive = 1 /\ seen.enemy_alive = r.clutchEnemy

\* An operation tells of the clutch what it changes.
TellsOfClutch(r, q) ==
  \/ q.out = r.out /\ q.clutchEnemy = r.clutchEnemy
  \/ \E e : /\ e.type # "Ace"
            /\ q.out = Append(r.out, e)
            /\ TellClutch(r.clutchEnemy, e) = q.clutchEnemy

LEMMA SeenByTeam ==
  ASSUME NEW r, WellFormed(r), r.supplement # None, r.team # None
  PROVE  Perspective(r) # None
  BY AbsentAssumption DEF WellFormed, Perspective, Published

LEMMA EndKeeps ==
  ASSUME NEW r, Sound(r)
  PROVE  LET q == EndClutch(r)
         IN  /\ Sound(q) /\ q.clutchActive = FALSE
             /\ EndClutchFields(r, q)
             /\ TellsOfClutch(r, q)
  <1> DEFINE q == EndClutch(r)
  <1>1. CASE r.clutchActive
    <2> DEFINE e == [type |-> "ClutchEnded", from |-> None, value |-> r.clutchEnemy]
    <2>1. /\ IsResolver(q)
          /\ EndClutchFields(r, q)
          /\ q.clutchActive = FALSE /\ q.clutchEnemy = None
          /\ q.ctx.clutchActive = FALSE /\ q.ctx.clutchOpponents = None
          /\ q.out = Append(r.out, e)
      BY <1>1, EndFields DEF Sound, WellFormed
    <2>2. TellClutch(r.clutchEnemy, e) = None
      BY <1>1 DEF Sound, ContextAgrees, TellClutch
    <2>3. e.type # "Ace"
      OBVIOUS
    <2> HIDE DEF q, e
    <2>4. /\ q.maxAge = r.maxAge /\ q.us = r.us /\ q.start = r.start /\ q.known = r.known
          /\ q.ended = r.ended /\ q.rosterChanged = r.rosterChanged
          /\ q.aceEmitted = r.aceEmitted /\ q.team = r.team /\ q.supplement = r.supplement
          /\ q.state = r.state /\ q.enemyTotal = r.enemyTotal /\ q.revision = r.revision
          /\ q.ctx.counts = r.ctx.counts /\ q.ctx.rosterChanged = r.ctx.rosterChanged
      BY <2>1 DEF EndClutchFields, Fields, ContextFields
    <2>5. WellFormed(q)
      BY <2>1, <2>4 DEF Sound, WellFormed
    <2>6. ContextAgrees(q) /\ BeginsUnknowing(q) /\ ClutchHasGrounds(q) /\ BaselineHasGrounds(q)
      BY <2>1, <2>4 DEF Sound, ContextAgrees, BeginsUnknowing, ClutchHasGrounds,
                        BaselineHasGrounds
    <2>7. TellsOfClutch(r, q)
      BY <2>1, <2>2, <2>3 DEF TellsOfClutch
    <2>8. QED
      BY <2>1, <2>5, <2>6, <2>7 DEF Sound, q
  <1>2. CASE ~r.clutchActive
    <2>1. q = r /\ r.clutchActive = FALSE
      BY <1>2 DEF EndClutch, Sound, WellFormed
    <2>2. QED
      BY <2>1 DEF EndClutchFields, TellsOfClutch
  <1>3. QED
    BY <1>1, <1>2

\* A clutch pursued against the given number of enemies.
LEMMA PursuitKeeps ==
  ASSUME NEW r, Sound(r), NEW enemies, enemies # None,
         r.known, ~r.ended, r.team # None, r.supplement # None, r.supplement.us >= r.start
  PROVE  LET q == PursueClutch(r, enemies)
         IN  /\ Sound(q) /\ q.clutchActive = TRUE /\ q.clutchEnemy = enemies
             /\ EndClutchFields(r, q)
             /\ TellsOfClutch(r, q)
  <1> DEFINE told == CASE ~r.clutchActive -> Emit(r, "ClutchStarted", None, enemies)
                       [] r.clutchActive /\ r.clutchEnemy # enemies ->
                            Emit(r, "ClutchUpdated", r.clutchEnemy, enemies)
                       [] OTHER -> r
             q == [told EXCEPT !.clutchActive = TRUE, !.clutchEnemy = enemies,
                               !.ctx.clutchActive = TRUE, !.ctx.clutchOpponents = enemies]
  <1>1. PursueClutch(r, enemies) = q
    BY DEF PursueClutch
  <1>2. /\ IsResolver(told)
        /\ \A f \in Fields \ {"out"} : told[f] = r[f]
        /\ \/ told.out = r.out /\ enemies = r.clutchEnemy
           \/ \E e : /\ e.type # "Ace"
                     /\ told.out = Append(r.out, e)
                     /\ TellClutch(r.clutchEnemy, e) = enemies
    <2>1. CASE ~r.clutchActive
      <3> DEFINE e == [type |-> "ClutchStarted", from |-> None, value |-> enemies]
      <3>1. told = Emit(r, "ClutchStarted", None, enemies)
        BY <2>1
      <3>2. TellClutch(r.clutchEnemy, e) = enemies /\ e.type # "Ace"
        BY <2>1 DEF TellClutch, Sound, ContextAgrees
      <3> HIDE DEF told
      <3>3. /\ IsResolver(told)
            /\ \A f \in Fields \ {"out"} : told[f] = r[f]
            /\ told.out = Append(r.out, e)
        BY <3>1, EmitFields DEF Sound, WellFormed
      <3> HIDE DEF e
      <3>4. QED
        BY <3>2, <3>3
    <2>2. CASE r.clutchActive /\ r.clutchEnemy # enemies
      <3> DEFINE e == [type |-> "ClutchUpdated", from |-> r.clutchEnemy, value |-> enemies]
      <3>1. told = Emit(r, "ClutchUpdated", r.clutchEnemy, enemies)
        BY <2>2
      <3>2. TellClutch(r.clutchEnemy, e) = enemies /\ e.type # "Ace"
        BY <2>2 DEF TellClutch, Sound, ContextAgrees
      <3> HIDE DEF told
      <3>3. /\ IsResolver(told)
            /\ \A f \in Fields \ {"out"} : told[f] = r[f]
            /\ told.out = Append(r.out, e)
        BY <3>1, EmitFields DEF Sound, WellFormed
      <3> HIDE DEF e
      <3>4. QED
        BY <3>2, <3>3
    <2>3. CASE r.clutchActive /\ r.clutchEnemy = enemies
      BY <2>3 DEF Sound, WellFormed
    <2>4. QED
      BY <2>1, <2>2, <2>3
  <1> HIDE DEF told
  <1>3. /\ IsResolver(q)
        /\ \A f \in Fields \ {"clutchActive", "clutchEnemy", "ctx"} : q[f] = told[f]
        /\ \A f \in ContextFields \ {"clutchActive", "clutchOpponents"} : q.ctx[f] = told.ctx[f]
        /\ q.clutchActive = TRUE /\ q.clutchEnemy = enemies
        /\ q.ctx.clutchActive = TRUE /\ q.ctx.clutchOpponents = enemies
    BY <1>2 DEF IsResolver, Fields, ContextFields
  <1> HIDE DEF q
  <1>4. EndClutchFields(r, q) /\ q.out = told.out
    BY <1>2, <1>3 DEF EndClutchFields, Fields, ContextFields
  <1>5. /\ q.maxAge = r.maxAge /\ q.us = r.us /\ q.start = r.start /\ q.known = r.known
        /\ q.ended = r.ended /\ q.rosterChanged = r.rosterChanged
        /\ q.aceEmitted = r.aceEmitted /\ q.team = r.team /\ q.supplement = r.supplement
        /\ q.state = r.state /\ q.enemyTotal = r.enemyTotal /\ q.revision = r.revision
        /\ q.ctx.counts = r.ctx.counts /\ q.ctx.rosterChanged = r.ctx.rosterChanged
    BY <1>4 DEF EndClutchFields, Fields, ContextFields
  <1>6. WellFormed(q)
    BY <1>3, <1>5 DEF Sound, WellFormed
  <1>7. ContextAgrees(q) /\ BeginsUnknowing(q) /\ ClutchHasGrounds(q) /\ BaselineHasGrounds(q)
    BY <1>3, <1>5 DEF Sound, ContextAgrees, BeginsUnknowing, ClutchHasGrounds,
                      BaselineHasGrounds
  <1>8. TellsOfClutch(r, q)
    BY <1>2, <1>3, <1>4 DEF TellsOfClutch
  <1>9. QED
    BY <1>1, <1>3, <1>4, <1>6, <1>7, <1>8 DEF Sound

\* What EvaluateClutch goes by.
Judges(r) == r.state # None /\ r.supplement # None /\ (r.known => r.supplement.us >= r.start)

LEMMA ClutchKeeps ==
  ASSUME NEW r, Sound(r), Judges(r)
  PROVE  LET q == EvaluateClutch(r)
         IN  /\ Sound(q)
             /\ q.clutchActive => ClutchIsOn(q)
             /\ EndClutchFields(r, q)
             /\ TellsOfClutch(r, q)
  <1> DEFINE q == EvaluateClutch(r)
             seen == Perspective(r)
             goes == /\ seen # None /\ seen.local_alive # None /\ seen.enemy_alive # None
                     /\ ClutchNow(r, seen)
  <1>1. CASE r.team = None \/ ~r.known
    <2>1. q = r
      BY <1>1 DEF EvaluateClutch
    <2>2. ~r.clutchActive
      BY <1>1 DEF Sound, ClutchHasGrounds
    <2>3. QED
      BY <2>1, <2>2 DEF EndClutchFields, TellsOfClutch
  <1>2. CASE r.team # None /\ r.known
    <2>1. ~(r.supplement.us < r.start)
      BY <1>2 DEF Judges, Sound, WellFormed
    <2>2. q = IF goes THEN PursueClutch(r, seen.enemy_alive) ELSE EndClutch(r)
      BY <1>2, <2>1 DEF EvaluateClutch, Judges
    <2>3. CASE goes
      <3>1. q = PursueClutch(r, seen.enemy_alive)
        BY <2>2, <2>3
      <3>2. /\ r.state.round_phase = "live" /\ ~r.ended /\ r.alive = TRUE
            /\ seen.local_alive = 1 /\ seen.enemy_alive # None
        BY <2>3 DEF ClutchNow
      <3>3. /\ Sound(q) /\ q.clutchEnemy = seen.enemy_alive
            /\ EndClutchFields(r, q) /\ TellsOfClutch(r, q)
        <4> HIDE DEF seen
        <4>1. /\ r.known /\ ~r.ended /\ r.team # None /\ r.supplement # None
              /\ r.supplement.us >= r.start
          BY <1>2, <3>2 DEF Judges
        <4>2. LET p == PursueClutch(r, seen.enemy_alive)
              IN  /\ Sound(p) /\ p.clutchEnemy = seen.enemy_alive
                  /\ EndClutchFields(r, p) /\ TellsOfClutch(r, p)
          BY <3>2, <4>1, PursuitKeeps
        <4> HIDE DEF q
        <4>3. QED
          BY <3>1, <4>2
      <3> HIDE DEF q
      <3>4. /\ q.state = r.state /\ q.alive = r.alive /\ q.supplement = r.supplement
            /\ q.team = r.team
        BY <3>3 DEF EndClutchFields, Fields
      <3>5. Perspective(q) = seen
        BY <3>4 DEF Perspective
      <3>6. ClutchIsOn(q)
        BY <3>2, <3>3, <3>4, <3>5 DEF ClutchIsOn
      <3>7. QED
        BY <3>3, <3>6 DEF q
    <2>4. CASE ~goes
      <3>1. q = EndClutch(r)
        BY <2>2, <2>4
      <3>2. QED
        BY <3>1, EndKeeps
    <2>5. QED
      BY <2>3, <2>4
  <1>3. QED
    BY <1>1, <1>2

\* An ace is emitted once per round and only when it is proven.
AceFields(r, q) == \A f \in Fields \ {"aceEmitted", "out"} : q[f] = r[f]

AceIsDue(r, q) ==
  /\ r.known /\ r.aceEmitted = FALSE /\ q.aceEmitted = TRUE
  /\ r.enemyTotal # None /\ q.rosterChanged = FALSE
  /\ SupportedRoundModeForAce(r.state.map_mode)

AceIsEmitted(r, q) ==
  /\ AceIsDue(r, q)
  /\ \E e : e.type = "Ace" /\ q.out = Append(r.out, e)

LEMMA AceKeeps ==
  ASSUME NEW r, Sound(r)
  PROVE  LET q == EvaluateAce(r)
         IN  /\ Sound(q)
             /\ AceFields(r, q)
             /\ \/ q.out = r.out /\ q.aceEmitted = r.aceEmitted
                \/ AceIsEmitted(r, q)
  <1> DEFINE q == EvaluateAce(r)
             proven == /\ r.known /\ ~r.aceEmitted /\ r.state # None
                       /\ SupportedRoundModeForAce(r.state.map_mode)
                       /\ RosterIsProven(r) /\ EnemiesAreDead(r)
                       /\ r.state.stats.round_kills = r.enemyTotal
  <1>1. CASE ~proven
    <2>1. q = r
      BY <1>1 DEF EvaluateAce
    <2>2. QED
      BY <2>1 DEF AceFields
  <1>2. CASE proven
    <2> DEFINE e == [type |-> "Ace", from |-> None, value |-> r.enemyTotal]
               told == Emit(r, "Ace", None, r.enemyTotal)
    <2>1. q = [told EXCEPT !.aceEmitted = TRUE]
      BY <1>2 DEF EvaluateAce
    <2>2. /\ r.known /\ r.aceEmitted = FALSE
          /\ r.enemyTotal # None /\ r.rosterChanged = FALSE
          /\ SupportedRoundModeForAce(r.state.map_mode)
      BY <1>2 DEF RosterIsProven, Sound, WellFormed
    <2>3. /\ IsResolver(told)
          /\ \A f \in Fields \ {"out"} : told[f] = r[f]
          /\ told.out = Append(r.out, e)
      BY EmitFields DEF Sound, WellFormed
    <2>4. e.type = "Ace"
      OBVIOUS
    <2> HIDE DEF told, e, q
    <2>5. /\ IsResolver(q) /\ q.aceEmitted = TRUE
          /\ \A f \in Fields \ {"aceEmitted"} : q[f] = told[f]
      BY <2>1, <2>3 DEF IsResolver, Fields
    <2>6. AceFields(r, q) /\ q.out = Append(r.out, e)
      BY <2>3, <2>5 DEF AceFields, Fields
    <2>7. /\ q.maxAge = r.maxAge /\ q.us = r.us /\ q.start = r.start /\ q.known = r.known
          /\ q.ended = r.ended /\ q.rosterChanged = r.rosterChanged
          /\ q.team = r.team /\ q.supplement = r.supplement /\ q.ctx = r.ctx
          /\ q.clutchActive = r.clutchActive /\ q.clutchEnemy = r.clutchEnemy
          /\ q.state = r.state /\ q.enemyTotal = r.enemyTotal /\ q.revision = r.revision
      BY <2>6 DEF AceFields, Fields
    <2>8. WellFormed(q)
      BY <2>5, <2>7 DEF Sound, WellFormed
    <2>9. ContextAgrees(q) /\ BeginsUnknowing(q) /\ ClutchHasGrounds(q) /\ BaselineHasGrounds(q)
      BY <2>7 DEF Sound, ContextAgrees, BeginsUnknowing, ClutchHasGrounds, BaselineHasGrounds
    <2>10. AceIsEmitted(r, q)
      BY <2>2, <2>4, <2>5, <2>6, <2>7 DEF AceIsEmitted, AceIsDue
    <2>11. QED
      BY <2>6, <2>8, <2>9, <2>10 DEF Sound, q
  <1>3. QED
    BY <1>1, <1>2

\* The counts are shown and the roster is compared.
LEMMA ObservationKeeps ==
  ASSUME NEW r, Sound(r), Judges(r)
  PROVE  LET q == ObserveRoster(UpdateContext(r))
         IN  /\ Sound(q)
             /\ \A f \in Fields \ {"ctx", "rosterChanged"} : q[f] = r[f]
             /\ q.ctx.counts = Perspective(r)
             /\ r.rosterChanged = TRUE => q.rosterChanged = TRUE
             /\ /\ r.known /\ r.enemyTotal # None /\ q.rosterChanged = FALSE
                /\ r.revision # None /\ r.supplement.revision # None
                => r.supplement.revision = r.revision
  <1> DEFINE u == UpdateContext(r)
             q == ObserveRoster(u)
  <1>1. /\ IsResolver(u)
        /\ \A f \in Fields \ {"ctx"} : u[f] = r[f]
        /\ \A f \in ContextFields \ {"counts"} : u.ctx[f] = r.ctx[f]
        /\ u.ctx.counts = Perspective(r)
    BY ContextUpdated DEF Sound, WellFormed
  <1> HIDE DEF u
  <1>2. /\ u.supplement = r.supplement /\ u.team = r.team /\ u.known = r.known
        /\ u.enemyTotal = r.enemyTotal /\ u.revision = r.revision
        /\ u.rosterChanged = r.rosterChanged
        /\ u.ctx.rosterChanged = r.ctx.rosterChanged
        /\ u.ctx.clutchActive = r.ctx.clutchActive
        /\ u.ctx.clutchOpponents = r.ctx.clutchOpponents
    BY <1>1 DEF Fields, ContextFields
  <1>3. Perspective(u) = Perspective(r)
    BY <1>2 DEF Perspective
  <1>4. /\ IsResolver(q)
        /\ \A f \in Fields \ {"ctx", "rosterChanged"} : q[f] = u[f]
        /\ \A f \in ContextFields \ {"rosterChanged"} : q.ctx[f] = u.ctx[f]
        /\ \/ q.rosterChanged = u.rosterChanged /\ q.ctx.rosterChanged = u.ctx.rosterChanged
           \/ q.rosterChanged \in BOOLEAN /\ q.ctx.rosterChanged = q.rosterChanged
        /\ u.rosterChanged = TRUE => q.rosterChanged = TRUE
        /\ u.known /\ u.enemyTotal # None /\ Perspective(u) # None /\ q.rosterChanged = FALSE =>
             (u.revision # None /\ u.supplement.revision # None =>
                u.supplement.revision = u.revision)
    BY <1>1, RosterFields
  <1> HIDE DEF q
  <1>5. /\ q.maxAge = r.maxAge /\ q.us = r.us /\ q.start = r.start /\ q.known = r.known
        /\ q.ended = r.ended /\ q.aceEmitted = r.aceEmitted
        /\ q.team = r.team /\ q.supplement = r.supplement
        /\ q.clutchActive = r.clutchActive /\ q.clutchEnemy = r.clutchEnemy
        /\ q.state = r.state /\ q.enemyTotal = r.enemyTotal /\ q.revision = r.revision
        /\ q.ctx.clutchActive = u.ctx.clutchActive
        /\ q.ctx.clutchOpponents = u.ctx.clutchOpponents
        /\ q.ctx.counts = u.ctx.counts
    BY <1>1, <1>4 DEF Fields, ContextFields
  <1>6. q.rosterChanged \in BOOLEAN /\ q.ctx.rosterChanged = q.rosterChanged
    BY <1>2, <1>4 DEF Sound, WellFormed, ContextAgrees
  <1>7. WellFormed(q)
    BY <1>4, <1>5, <1>6 DEF Sound, WellFormed
  <1>8. ContextAgrees(q) /\ BeginsUnknowing(q) /\ ClutchHasGrounds(q) /\ BaselineHasGrounds(q)
    BY <1>2, <1>5, <1>6 DEF Sound, Judges, ContextAgrees, BeginsUnknowing, ClutchHasGrounds,
                      BaselineHasGrounds
  <1>9. \A f \in Fields \ {"ctx", "rosterChanged"} : q[f] = r[f]
    BY <1>1, <1>4
  <1>10. r.known /\ r.enemyTotal # None => Perspective(r) # None
    BY SeenByTeam DEF Sound, BaselineHasGrounds, Judges
  <1>11. QED
    BY <1>1, <1>2, <1>3, <1>4, <1>5, <1>7, <1>8, <1>9, <1>10 DEF Sound, q, u

\* A clutch that could be judged by the latest payload is the one it shows.
ClutchIsJudged(r) ==
  r.clutchActive /\ FreshAt(r.supplement, r.us, r.maxAge) => ClutchIsOn(r)

CountsAreShown(r) ==
  r.ctx.counts # None =>
    /\ r.supplement # None
    /\ r.known => r.supplement.us >= r.start
    /\ r.supplement.us <= r.us => FreshAt(r.supplement, r.us, r.maxAge)
    /\ r.ctx.counts = Perspective(r)

\* Between two calls all that is shown agrees with the latest payload.
Settled(r) == Sound(r) /\ ClutchIsJudged(r) /\ CountsAreShown(r)

\* What a call judges, without the fields of the round and of the supplement.
EvaluatedFields == {"ctx", "rosterChanged", "clutchActive", "clutchEnemy", "aceEmitted", "out"}

\* The events of a call that finds the clutch told, and the ace it may emit.
TellsOfCall(r, before, q) ==
  \/ q.aceEmitted = r.aceEmitted /\ Tells(q.out, 2, before, q.clutchEnemy, 0)
  \/ AceIsDue(r, q) /\ Tells(q.out, 2, before, q.clutchEnemy, 1)

LEMMA EvaluationKeeps ==
  ASSUME NEW r, Sound(r), Judges(r),
         NEW before, Tells(r.out, 0, before, r.clutchEnemy, 0)
  PROVE  LET q == Evaluate(r)
         IN  /\ Sound(q)
             /\ \A f \in Fields \ EvaluatedFields : q[f] = r[f]
             /\ q.clutchActive => ClutchIsOn(q)
             /\ q.ctx.counts = Perspective(q)
             /\ r.rosterChanged = TRUE => q.rosterChanged = TRUE
             /\ /\ r.known /\ r.enemyTotal # None /\ q.rosterChanged = FALSE
                /\ r.revision # None /\ r.supplement.revision # None
                => r.supplement.revision = r.revision
             /\ TellsOfCall(r, before, q)
  <1> DEFINE o == ObserveRoster(UpdateContext(r))
             c == EvaluateClutch(o)
             q == EvaluateAce(c)
  <1>1. q = Evaluate(r)
    BY DEF Evaluate
  <1>2. /\ Sound(o)
        /\ \A f \in Fields \ {"ctx", "rosterChanged"} : o[f] = r[f]
        /\ o.ctx.counts = Perspective(r)
        /\ r.rosterChanged = TRUE => o.rosterChanged = TRUE
        /\ /\ r.known /\ r.enemyTotal # None /\ o.rosterChanged = FALSE
           /\ r.revision # None /\ r.supplement.revision # None
           => r.supplement.revision = r.revision
    BY ObservationKeeps
  <1> HIDE DEF o
  <1>3. /\ o.state = r.state /\ o.supplement = r.supplement /\ o.known = r.known
        /\ o.start = r.start /\ o.team = r.team /\ o.out = r.out
        /\ o.clutchEnemy = r.clutchEnemy /\ o.aceEmitted = r.aceEmitted
        /\ o.enemyTotal = r.enemyTotal
    BY <1>2 DEF Fields
  <1>4. Judges(o)
    BY <1>3 DEF Judges
  <1>5. /\ Sound(c)
        /\ c.clutchActive => ClutchIsOn(c)
        /\ EndClutchFields(o, c)
        /\ TellsOfClutch(o, c)
    BY <1>2, <1>4, ClutchKeeps
  <1> HIDE DEF c
  <1>6. /\ c.state = r.state /\ c.supplement = r.supplement /\ c.known = r.known
        /\ c.team = r.team /\ c.aceEmitted = r.aceEmitted /\ c.enemyTotal = r.enemyTotal
        /\ c.rosterChanged = o.rosterChanged /\ c.ctx.counts = o.ctx.counts
    BY <1>3, <1>5 DEF EndClutchFields, Fields, ContextFields
  <1>7. /\ Sound(q)
        /\ AceFields(c, q)
        /\ \/ q.out = c.out /\ q.aceEmitted = c.aceEmitted
           \/ AceIsEmitted(c, q)
    BY <1>5, AceKeeps
  <1> HIDE DEF q
  <1>8. /\ q.state = r.state /\ q.supplement = r.supplement /\ q.team = r.team
        /\ q.alive = c.alive /\ q.clutchActive = c.clutchActive
        /\ q.clutchEnemy = c.clutchEnemy
        /\ q.rosterChanged = o.rosterChanged /\ q.ctx.counts = o.ctx.counts
    BY <1>6, <1>7 DEF AceFields, Fields
  <1>9. Perspective(q) = Perspective(r) /\ Perspective(q) = Perspective(c)
    BY <1>6, <1>8 DEF Perspective
  <1>10. q.clutchActive => ClutchIsOn(q)
    BY <1>5, <1>6, <1>8, <1>9 DEF ClutchIsOn
  <1>11. \A f \in Fields \ EvaluatedFields : q[f] = r[f]
    BY <1>2, <1>5, <1>7 DEF EndClutchFields, AceFields, EvaluatedFields
  <1>12. TellsOfCall(r, before, q)
    <2>1. Tells(c.out, 1, before, c.clutchEnemy, 0)
      <3>1. /\ Tells(o.out, 1, before, o.clutchEnemy, 0)
            /\ \A e : Tells(Append(o.out, e), 1, before, TellClutch(o.clutchEnemy, e),
                            IF e.type = "Ace" THEN 1 ELSE 0)
        BY <1>3, OneMoreTells
      <3>2. QED
        BY <1>5, <3>1 DEF TellsOfClutch
    <2>2. /\ Tells(c.out, 2, before, c.clutchEnemy, 0)
          /\ \A e : Tells(Append(c.out, e), 2, before, TellClutch(c.clutchEnemy, e),
                          IF e.type = "Ace" THEN 1 ELSE 0)
      BY <2>1, OneMoreTells
    <2>3. CASE q.out = c.out /\ q.aceEmitted = c.aceEmitted
      BY <1>6, <1>8, <2>2, <2>3 DEF TellsOfCall
    <2>4. CASE AceIsEmitted(c, q)
      <3>1. PICK e : e.type = "Ace" /\ q.out = Append(c.out, e)
        BY <2>4 DEF AceIsEmitted
      <3>2. TellClutch(c.clutchEnemy, e) = c.clutchEnemy
        BY <3>1 DEF TellClutch
      <3>3. Tells(q.out, 2, before, q.clutchEnemy, 1)
        BY <1>8, <2>2, <3>1, <3>2
      <3>4. AceIsDue(r, q)
        BY <1>6, <2>4 DEF AceIsEmitted, AceIsDue
      <3>5. QED
        BY <3>3, <3>4 DEF TellsOfCall
    <2>5. QED
      BY <1>7, <2>3, <2>4
  <1>13. QED
    BY <1>1, <1>2, <1>7, <1>8, <1>9, <1>10, <1>11, <1>12

LEMMA OnlyOutChanges ==
  ASSUME NEW r, Settled(r), NEW out
  PROVE  LET q == [r EXCEPT !.out = out]
         IN  /\ Settled(q)
             /\ \A f \in Fields \ {"out"} : q[f] = r[f]
             /\ q.out = out
  <1> DEFINE q == [r EXCEPT !.out = out]
  <1>1. /\ IsResolver(q) /\ q.out = out
        /\ \A f \in Fields \ {"out"} : q[f] = r[f]
    BY DEF Settled, Sound, WellFormed, IsResolver, Fields
  <1> HIDE DEF q
  <1>2. /\ q.maxAge = r.maxAge /\ q.us = r.us /\ q.start = r.start /\ q.known = r.known
        /\ q.ended = r.ended /\ q.rosterChanged = r.rosterChanged /\ q.alive = r.alive
        /\ q.aceEmitted = r.aceEmitted /\ q.team = r.team /\ q.supplement = r.supplement
        /\ q.clutchActive = r.clutchActive /\ q.clutchEnemy = r.clutchEnemy
        /\ q.state = r.state /\ q.enemyTotal = r.enemyTotal /\ q.revision = r.revision
        /\ q.ctx = r.ctx
    BY <1>1 DEF Fields
  <1>3. Perspective(q) = Perspective(r)
    BY <1>2 DEF Perspective
  <1>4. WellFormed(q)
    BY <1>1, <1>2 DEF Settled, Sound, WellFormed
  <1>5. ContextAgrees(q) /\ BeginsUnknowing(q) /\ ClutchHasGrounds(q) /\ BaselineHasGrounds(q)
    BY <1>2 DEF Settled, Sound, ContextAgrees, BeginsUnknowing, ClutchHasGrounds,
                BaselineHasGrounds
  <1>6. ClutchIsJudged(q) /\ CountsAreShown(q)
    BY <1>2, <1>3 DEF Settled, ClutchIsJudged, ClutchIsOn, CountsAreShown
  <1>7. QED
    BY <1>1, <1>4, <1>5, <1>6 DEF Settled, Sound, q

(***************************************************************************)
(* A payload, in the parts of process_gsi().                               *)
(***************************************************************************)

LEMMA ResetIsSettled ==
  ASSUME NEW r, Sound(r)
  PROVE  LET q == Reset(r)
         IN  /\ Settled(q)
             /\ q.state = None /\ q.supplement = None /\ q.team = None /\ q.us = 0
             /\ q.known = FALSE /\ q.enemyTotal = None /\ q.clutchEnemy = None
             /\ q.out = <<>>
  <1> DEFINE q == Reset(r)
  <1>1. q = Fresh(r.maxAge)
    BY DEF Reset
  <1>2. /\ IsResolver(q)
        /\ q.maxAge = r.maxAge /\ q.out = <<>>
        /\ q.state = None /\ q.supplement = None /\ q.team = None
        /\ q.us = 0 /\ q.start = 0
        /\ q.known = FALSE /\ q.ended = FALSE
        /\ q.rosterChanged = FALSE /\ q.aceEmitted = FALSE
        /\ q.enemyTotal = None /\ q.clutchActive = FALSE /\ q.clutchEnemy = None
        /\ q.ctx.counts = None /\ q.ctx.clutchActive = FALSE
        /\ q.ctx.clutchOpponents = None /\ q.ctx.rosterChanged = FALSE
    <2> HIDE DEF q
    <2>1. QED
      BY <1>1, FreshFields
  <1> HIDE DEF q
  <1>3. WellFormed(q)
    <2>1. q.us \in Nat /\ q.start \in Nat /\ q.start <= q.us
      BY <1>2
    <2>2. QED
      BY <1>2, <2>1 DEF Sound, WellFormed
  <1>4. ContextAgrees(q) /\ BeginsUnknowing(q) /\ ClutchHasGrounds(q) /\ BaselineHasGrounds(q)
    BY <1>2 DEF ContextAgrees, BeginsUnknowing, ClutchHasGrounds, BaselineHasGrounds
  <1>5. ClutchIsJudged(q) /\ CountsAreShown(q)
    BY <1>2 DEF ClutchIsJudged, CountsAreShown
  <1>6. QED
    BY <1>2, <1>3, <1>4, <1>5 DEF Settled, Sound, q

LearntFields == {"state", "us", "acquired", "team", "alive", "ctx", "out"}

LEMMA LearningKeeps ==
  ASSUME NEW r, Sound(r), NEW s \in Snapshots, NEW us \in Nat, r.us <= us, NEW facts
  PROVE  LET q == UpdateLifecycleContext(Learn(r, s, us, facts))
         IN  /\ Sound(q)
             /\ q.state = s /\ q.us = us /\ q.out = <<>>
             /\ q.team = IF s.local /\ s.team # None THEN s.team ELSE r.team
             /\ \A f \in Fields \ LearntFields : q[f] = r[f]
  <1> DEFINE l == Learn(r, s, us, facts)
             q == UpdateLifecycleContext(l)
  <1>1. /\ IsResolver(l)
        /\ l.state = s /\ l.us = us /\ l.out = <<>>
        /\ l.team = IF s.local /\ s.team # None THEN s.team ELSE r.team
        /\ \A f \in Fields \ {"out", "state", "us", "acquired", "team", "alive"} : l[f] = r[f]
    BY LearnFields DEF Sound, WellFormed
  <1> HIDE DEF l
  <1>2. /\ IsResolver(q)
        /\ \A f \in Fields \ {"ctx"} : q[f] = l[f]
        /\ \A f \in ContextFields \ {"lifecycle", "acquired", "alive"} : q.ctx[f] = l.ctx[f]
    BY <1>1, LifecycleFields
  <1> HIDE DEF q
  <1>3. /\ q.state = s /\ q.us = us /\ q.out = <<>>
        /\ q.team = IF s.local /\ s.team # None THEN s.team ELSE r.team
        /\ q.maxAge = r.maxAge /\ q.start = r.start /\ q.known = r.known
        /\ q.ended = r.ended /\ q.rosterChanged = r.rosterChanged
        /\ q.aceEmitted = r.aceEmitted /\ q.supplement = r.supplement
        /\ q.clutchActive = r.clutchActive /\ q.clutchEnemy = r.clutchEnemy
        /\ q.enemyTotal = r.enemyTotal /\ q.revision = r.revision
        /\ q.ctx.rosterChanged = r.ctx.rosterChanged
        /\ q.ctx.clutchActive = r.ctx.clutchActive
        /\ q.ctx.clutchOpponents = r.ctx.clutchOpponents
    BY <1>1, <1>2 DEF Fields, ContextFields
  <1>4. q.team \in {"CT", "T", None} /\ (r.team # None => q.team # None)
    BY <1>3, GameOfSnapshots DEF Sound, WellFormed
  <1>5. q.us \in Nat /\ q.start \in Nat /\ q.start <= q.us
    BY <1>3 DEF Sound, WellFormed
  <1>6. WellFormed(q)
    BY <1>2, <1>3, <1>4, <1>5 DEF Sound, WellFormed
  <1>7. ContextAgrees(q) /\ BeginsUnknowing(q) /\ ClutchHasGrounds(q) /\ BaselineHasGrounds(q)
    <2>1. q.state # None
      BY <1>3, GameOfSnapshots
    <2>2. QED
      BY <1>3, <1>4, <2>1 DEF Sound, ContextAgrees, BeginsUnknowing, ClutchHasGrounds,
                              BaselineHasGrounds
  <1>8. \A f \in Fields \ LearntFields : q[f] = r[f]
    BY <1>1, <1>2 DEF LearntFields
  <1>9. QED
    BY <1>3, <1>6, <1>7, <1>8 DEF Sound, q, l

LEMMA BeginKeeps ==
  ASSUME NEW r, Sound(r), r.state # None
  PROVE  LET q == BeginRound(r)
         IN  /\ Sound(q)
             /\ \A f \in Fields \ RoundFields : q[f] = r[f]
             /\ q.known = TRUE /\ q.clutchEnemy = None /\ q.aceEmitted = FALSE
             /\ q.enemyTotal # None =>
                  q.supplement # None /\ q.revision = q.supplement.revision
  <1> DEFINE b == Begun(r)
             q == BeginRound(r)
  <1>1. /\ IsResolver(b)
        /\ \A f \in Fields \ RoundFields : b[f] = r[f]
        /\ b.known = TRUE /\ b.ended = FALSE /\ b.start = r.us
        /\ b.enemyTotal = None /\ b.rosterChanged = FALSE /\ b.aceEmitted = FALSE
        /\ b.clutchActive = FALSE /\ b.clutchEnemy = None
        /\ b.ctx.rosterChanged = FALSE /\ b.ctx.clutchActive = FALSE
        /\ b.ctx.clutchOpponents = None /\ b.ctx.counts = None
    BY BegunFields DEF Sound, WellFormed
  <1>2. q = IF r.supplement # None /\ FreshAt(r.supplement, r.us, r.maxAge)
            THEN EstablishRoundBaseline(b) ELSE b
    BY DEF BeginRound, Begun
  <1> HIDE DEF b, q
  <1>3. /\ IsResolver(q)
        /\ \A f \in Fields \ {"enemyTotal", "revision"} : q[f] = b[f]
        /\ q.enemyTotal # None =>
             /\ r.supplement # None
             /\ Perspective(b) # None
             /\ q.revision = b.supplement.revision
             /\ RequireRevision => q.revision # None
    <2>1. CASE r.supplement # None /\ FreshAt(r.supplement, r.us, r.maxAge)
      <3>1. q = EstablishRoundBaseline(b)
        BY <1>2, <2>1
      <3>2. QED
        BY <1>1, <2>1, <3>1, BaselineFields
    <2>2. CASE ~(r.supplement # None /\ FreshAt(r.supplement, r.us, r.maxAge))
      BY <1>1, <1>2, <2>2
    <2>3. QED
      BY <2>1, <2>2
  <1>4. /\ b.supplement = r.supplement /\ b.team = r.team
        /\ q.maxAge = r.maxAge /\ q.us = r.us /\ q.start = r.us /\ q.known = TRUE
        /\ q.ended = FALSE /\ q.rosterChanged = FALSE /\ q.aceEmitted = FALSE
        /\ q.team = r.team /\ q.supplement = r.supplement /\ q.state = r.state
        /\ q.clutchActive = FALSE /\ q.clutchEnemy = None /\ q.ctx = b.ctx
    BY <1>1, <1>3 DEF Fields, RoundFields
  <1>5. WellFormed(q)
    <2>1. q.us \in Nat /\ q.start \in Nat /\ q.start <= q.us
      BY <1>4 DEF Sound, WellFormed
    <2>2. QED
      BY <1>3, <1>4, <2>1 DEF Sound, WellFormed
  <1>6. q.enemyTotal # None => q.team # None
    BY <1>3, <1>4 DEF Perspective
  <1>7. ContextAgrees(q) /\ BeginsUnknowing(q) /\ ClutchHasGrounds(q) /\ BaselineHasGrounds(q)
    BY <1>1, <1>3, <1>4, <1>6 DEF ContextAgrees, BeginsUnknowing, ClutchHasGrounds,
                                  BaselineHasGrounds
  <1>8. \A f \in Fields \ RoundFields : q[f] = r[f]
    BY <1>1, <1>3 DEF RoundFields
  <1>9. QED
    BY <1>3, <1>4, <1>5, <1>7, <1>8 DEF Sound, q

\* The clutch and the ace are judged, or no counts are shown.
Judged(r) ==
  IF HasCurrentRoundSupplement(r) THEN Evaluate(r) ELSE [r EXCEPT !.ctx.counts = None]

LEMMA JudgingKeeps ==
  ASSUME NEW r, Sound(r), r.state # None, r.out = <<>>
  PROVE  LET q == Judged(r)
         IN  /\ Settled(q)
             /\ \A f \in Fields \ EvaluatedFields : q[f] = r[f]
             /\ r.rosterChanged = TRUE => q.rosterChanged = TRUE
             /\ TellsOfCall(r, r.clutchEnemy, q)
  <1> DEFINE q == Judged(r)
  <1>1. Tells(r.out, 0, r.clutchEnemy, r.clutchEnemy, 0)
    BY NothingTells
  <1>2. CASE HasCurrentRoundSupplement(r)
    <2>1. q = Evaluate(r)
      BY <1>2 DEF Judged
    <2>2. Judges(r)
      BY <1>2 DEF HasCurrentRoundSupplement, Judges
    <2> HIDE DEF q
    <2>3. /\ Sound(q)
          /\ \A f \in Fields \ EvaluatedFields : q[f] = r[f]
          /\ q.clutchActive => ClutchIsOn(q)
          /\ q.ctx.counts = Perspective(q)
          /\ r.rosterChanged = TRUE => q.rosterChanged = TRUE
          /\ TellsOfCall(r, r.clutchEnemy, q)
      BY <1>1, <2>1, <2>2, EvaluationKeeps
    <2>4. /\ q.supplement = r.supplement /\ q.us = r.us /\ q.maxAge = r.maxAge
          /\ q.known = r.known /\ q.start = r.start
      BY <2>3 DEF Fields, EvaluatedFields
    <2>5. CountsAreShown(q)
      BY <1>2, <2>3, <2>4 DEF CountsAreShown, HasCurrentRoundSupplement
    <2>6. ClutchIsJudged(q)
      BY <2>3 DEF ClutchIsJudged
    <2>7. QED
      BY <2>3, <2>5, <2>6 DEF Settled, q
  <1>3. CASE ~HasCurrentRoundSupplement(r)
    <2>1. q = [r EXCEPT !.ctx.counts = None]
      BY <1>3 DEF Judged
    <2> HIDE DEF q
    <2>2. /\ IsResolver(q)
          /\ \A f \in Fields \ {"ctx"} : q[f] = r[f]
          /\ q.ctx.counts = None /\ q.ctx.clutchActive = r.ctx.clutchActive
          /\ q.ctx.clutchOpponents = r.ctx.clutchOpponents
          /\ q.ctx.rosterChanged = r.ctx.rosterChanged
      BY <2>1 DEF Sound, WellFormed, IsResolver, Fields, ContextFields
    <2>3. /\ q.maxAge = r.maxAge /\ q.us = r.us /\ q.start = r.start /\ q.known = r.known
          /\ q.ended = r.ended /\ q.rosterChanged = r.rosterChanged
          /\ q.aceEmitted = r.aceEmitted /\ q.team = r.team /\ q.supplement = r.supplement
          /\ q.clutchActive = r.clutchActive /\ q.clutchEnemy = r.clutchEnemy
          /\ q.state = r.state /\ q.enemyTotal = r.enemyTotal /\ q.revision = r.revision
          /\ q.out = r.out
      BY <2>2 DEF Fields
    <2>4. WellFormed(q)
      BY <2>2, <2>3 DEF Sound, WellFormed
    <2>5. ContextAgrees(q) /\ BeginsUnknowing(q) /\ ClutchHasGrounds(q) /\ BaselineHasGrounds(q)
      BY <2>2, <2>3 DEF Sound, ContextAgrees, BeginsUnknowing, ClutchHasGrounds,
                        BaselineHasGrounds
    <2>6. ClutchIsJudged(q)
      BY <1>3, <2>3 DEF Sound, ClutchIsJudged, ClutchHasGrounds, HasCurrentRoundSupplement
    <2>7. CountsAreShown(q)
      BY <2>2 DEF CountsAreShown
    <2>8. TellsOfCall(r, r.clutchEnemy, q)
      <3>1. Tells(q.out, 2, r.clutchEnemy, r.clutchEnemy, 0)
        BY <1>1, <2>3 DEF Tells
      <3>2. QED
        BY <2>3, <3>1 DEF TellsOfCall
    <2>9. \A f \in Fields \ EvaluatedFields : q[f] = r[f]
      BY <2>2 DEF EvaluatedFields
    <2>10. QED
      BY <2>3, <2>4, <2>5, <2>6, <2>7, <2>8, <2>9 DEF Settled, Sound, q
  <1>4. QED
    BY <1>2, <1>3

\* The round ends, and with it its clutch.
Closed(r) == [EndClutch(r) EXCEPT !.ended = TRUE]

LEMMA ClosingKeeps ==
  ASSUME NEW r, Settled(r)
  PROVE  LET q == Closed(r)
         IN  /\ Settled(q)
             /\ \A f \in Fields \ {"ended", "clutchActive", "clutchEnemy", "ctx", "out"} : q[f] = r[f]
             /\ q.clutchEnemy = None
             /\ TellsOfClutch(r, q)
  <1> DEFINE e == EndClutch(r)
             q == [e EXCEPT !.ended = TRUE]
  <1>1. q = Closed(r)
    BY DEF Closed
  <1>2. /\ Sound(e) /\ e.clutchActive = FALSE
        /\ EndClutchFields(r, e)
        /\ TellsOfClutch(r, e)
    BY EndKeeps DEF Settled
  <1> HIDE DEF e
  <1>3. /\ IsResolver(q) /\ q.ended = TRUE
        /\ \A f \in Fields \ {"ended"} : q[f] = e[f]
    BY <1>2 DEF Sound, WellFormed, IsResolver, Fields
  <1> HIDE DEF q
  <1>4. /\ q.maxAge = e.maxAge /\ q.us = e.us /\ q.start = e.start /\ q.known = e.known
        /\ q.rosterChanged = e.rosterChanged
        /\ q.aceEmitted = e.aceEmitted /\ q.team = e.team /\ q.supplement = e.supplement
        /\ q.clutchActive = e.clutchActive /\ q.clutchEnemy = e.clutchEnemy
        /\ q.state = e.state /\ q.enemyTotal = e.enemyTotal /\ q.revision = e.revision
        /\ q.out = e.out /\ q.ctx = e.ctx
    BY <1>3 DEF Fields
  <1>5. WellFormed(q)
    BY <1>2, <1>3, <1>4 DEF Sound, WellFormed
  <1>6. ContextAgrees(q) /\ BeginsUnknowing(q) /\ ClutchHasGrounds(q) /\ BaselineHasGrounds(q)
    BY <1>2, <1>3, <1>4 DEF Sound, ContextAgrees, BeginsUnknowing, ClutchHasGrounds,
                            BaselineHasGrounds
  <1>7. ClutchIsJudged(q) /\ q.clutchEnemy = None
    BY <1>2, <1>4 DEF ClutchIsJudged, Sound, ContextAgrees
  <1>8. /\ q.supplement = r.supplement /\ q.us = r.us /\ q.maxAge = r.maxAge
        /\ q.known = r.known /\ q.start = r.start /\ q.team = r.team
        /\ q.ctx.counts = r.ctx.counts
    BY <1>2, <1>4 DEF EndClutchFields, Fields, ContextFields
  <1>9. Perspective(q) = Perspective(r)
    BY <1>8 DEF Perspective
  <1>10. CountsAreShown(q)
    BY <1>8, <1>9 DEF Settled, CountsAreShown
  <1>11. TellsOfClutch(r, q)
    BY <1>2, <1>4 DEF TellsOfClutch
  <1>12. \A f \in Fields \ {"ended", "clutchActive", "clutchEnemy", "ctx", "out"} : q[f] = r[f]
    BY <1>2, <1>3 DEF EndClutchFields
  <1>13. QED
    BY <1>1, <1>5, <1>6, <1>7, <1>10, <1>11, <1>12 DEF Settled, Sound

\* The payload is learnt, and the round it may start begins.
Opened(r, s, us, facts) ==
  LET learnt == UpdateLifecycleContext(Learn(r, s, us, facts))
  IN  IF "RoundStarted" \in facts THEN BeginRound(learnt) ELSE learnt

RoundIsNew(q) ==
  /\ q.known = TRUE /\ q.clutchEnemy = None /\ q.aceEmitted = FALSE
  /\ q.enemyTotal # None => q.supplement # None /\ q.revision = q.supplement.revision

RoundGoesOn(r, q) ==
  /\ q.known = r.known /\ q.clutchEnemy = r.clutchEnemy /\ q.aceEmitted = r.aceEmitted
  /\ q.enemyTotal = r.enemyTotal /\ q.revision = r.revision
  /\ q.rosterChanged = r.rosterChanged

LEMMA OpeningKeeps ==
  ASSUME NEW r, Sound(r), NEW s \in Snapshots, NEW us \in Nat, r.us <= us, NEW facts
  PROVE  LET q == Opened(r, s, us, facts)
         IN  /\ Sound(q)
             /\ q.state = s /\ q.us = us /\ q.out = <<>> /\ q.supplement = r.supplement
             /\ q.team = IF s.local /\ s.team # None THEN s.team ELSE r.team
             /\ IF "RoundStarted" \in facts THEN RoundIsNew(q) ELSE RoundGoesOn(r, q)
  <1> DEFINE l == UpdateLifecycleContext(Learn(r, s, us, facts))
             q == Opened(r, s, us, facts)
  <1>1. q = IF "RoundStarted" \in facts THEN BeginRound(l) ELSE l
    BY DEF Opened
  <1>2. /\ Sound(l)
        /\ l.state = s /\ l.us = us /\ l.out = <<>>
        /\ l.team = IF s.local /\ s.team # None THEN s.team ELSE r.team
        /\ \A f \in Fields \ LearntFields : l[f] = r[f]
    BY LearningKeeps
  <1> HIDE DEF l, q
  <1>3. /\ l.supplement = r.supplement /\ l.known = r.known
        /\ l.clutchEnemy = r.clutchEnemy /\ l.aceEmitted = r.aceEmitted
        /\ l.enemyTotal = r.enemyTotal /\ l.revision = r.revision
        /\ l.rosterChanged = r.rosterChanged
    BY <1>2 DEF Fields, LearntFields
  <1>4. CASE "RoundStarted" \in facts
    <2>1. q = BeginRound(l) /\ l.state # None
      BY <1>1, <1>2, <1>4, GameOfSnapshots
    <2>2. /\ Sound(q)
          /\ \A f \in Fields \ RoundFields : q[f] = l[f]
          /\ RoundIsNew(q)
      BY <1>2, <2>1, BeginKeeps DEF RoundIsNew
    <2>3. /\ q.state = l.state /\ q.us = l.us /\ q.out = l.out /\ q.team = l.team
          /\ q.supplement = l.supplement
      BY <2>2 DEF Fields, RoundFields
    <2>4. QED
      BY <1>2, <1>3, <1>4, <2>2, <2>3 DEF q
  <1>5. CASE "RoundStarted" \notin facts
    <2>1. q = l
      BY <1>1, <1>5
    <2>2. QED
      BY <1>2, <1>3, <1>5, <2>1 DEF RoundGoesOn, q
  <1>6. QED
    BY <1>4, <1>5

\* What follows once the payload is learnt.
Concluded(r, facts) ==
  IF facts \cap {"RoundEnded", "GameOver", "MatchLeft"} = {} THEN Judged(r)
  ELSE Closed(Judged(r))

TellsOfPayload(r, q) ==
  \/ q.aceEmitted = r.aceEmitted /\ Tells(q.out, 3, r.clutchEnemy, q.clutchEnemy, 0)
  \/ AceIsDue(r, q) /\ Tells(q.out, 3, r.clutchEnemy, q.clutchEnemy, 1)

LEMMA ConclusionKeeps ==
  ASSUME NEW r, Sound(r), r.state # None, r.out = <<>>, NEW facts
  PROVE  LET q == Concluded(r, facts)
         IN  /\ Settled(q)
             /\ q.state = r.state /\ q.us = r.us /\ q.supplement = r.supplement
             /\ q.team = r.team /\ q.known = r.known
             /\ q.enemyTotal = r.enemyTotal /\ q.revision = r.revision
             /\ r.rosterChanged = TRUE => q.rosterChanged = TRUE
             /\ "MatchLeft" \in facts => q.clutchEnemy = None
             /\ TellsOfPayload(r, q)
  <1> DEFINE j == Judged(r)
             c == Closed(j)
             q == Concluded(r, facts)
             closes == facts \cap {"RoundEnded", "GameOver", "MatchLeft"} # {}
  <1>1. q = IF closes THEN c ELSE j
    BY DEF Concluded
  <1>2. "MatchLeft" \in facts => closes
    OBVIOUS
  <1>3. /\ Settled(j)
        /\ \A f \in Fields \ EvaluatedFields : j[f] = r[f]
        /\ r.rosterChanged = TRUE => j.rosterChanged = TRUE
        /\ TellsOfCall(r, r.clutchEnemy, j)
    BY JudgingKeeps
  <1> HIDE DEF j, closes, q
  <1>4. /\ j.state = r.state /\ j.us = r.us /\ j.supplement = r.supplement
        /\ j.team = r.team /\ j.known = r.known
        /\ j.enemyTotal = r.enemyTotal /\ j.revision = r.revision
    BY <1>3 DEF Fields, EvaluatedFields
  <1>5. PICK n \in {0, 1} :
          /\ Tells(j.out, 2, r.clutchEnemy, j.clutchEnemy, n)
          /\ IF n = 1 THEN AceIsDue(r, j) ELSE j.aceEmitted = r.aceEmitted
    BY <1>3 DEF TellsOfCall
  <1>6. CASE ~closes
    <2>1. q = j
      BY <1>1, <1>6
    <2>2. Tells(j.out, 3, r.clutchEnemy, j.clutchEnemy, n)
      BY <1>5, OneMoreTells
    <2>3. TellsOfPayload(r, q)
      BY <1>5, <2>1, <2>2 DEF TellsOfPayload
    <2>4. QED
      BY <1>2, <1>3, <1>4, <1>6, <2>1, <2>3 DEF q
  <1>7. CASE closes
    <2>1. /\ Settled(c)
          /\ \A f \in Fields \ {"ended", "clutchActive", "clutchEnemy", "ctx", "out"} : c[f] = j[f]
          /\ c.clutchEnemy = None
          /\ TellsOfClutch(j, c)
      BY <1>3, ClosingKeeps
    <2>2. q = c
      BY <1>1, <1>7
    <2> HIDE DEF c
    <2>3. /\ c.state = j.state /\ c.us = j.us /\ c.supplement = j.supplement
          /\ c.team = j.team /\ c.known = j.known
          /\ c.enemyTotal = j.enemyTotal /\ c.revision = j.revision
          /\ c.rosterChanged = j.rosterChanged /\ c.aceEmitted = j.aceEmitted
      BY <2>1 DEF Fields
    <2>4. Tells(c.out, 3, r.clutchEnemy, c.clutchEnemy, n)
      <3>1. /\ Tells(j.out, 3, r.clutchEnemy, j.clutchEnemy, n)
            /\ \A e : Tells(Append(j.out, e), 3, r.clutchEnemy, TellClutch(j.clutchEnemy, e),
                            IF e.type = "Ace" THEN n + 1 ELSE n)
        BY <1>5, OneMoreTells
      <3>2. QED
        BY <2>1, <3>1 DEF TellsOfClutch
    <2>5. IF n = 1 THEN AceIsDue(r, c) ELSE c.aceEmitted = r.aceEmitted
      BY <1>5, <2>3 DEF AceIsDue
    <2>6. TellsOfPayload(r, c)
      BY <2>4, <2>5 DEF TellsOfPayload
    <2>7. QED
      BY <1>3, <1>4, <2>1, <2>2, <2>3, <2>6 DEF q
  <1>8. QED
    BY <1>6, <1>7

LEMMA PayloadInParts ==
  ASSUME NEW r, NEW s, NEW us, NEW facts
  PROVE  LET p == Concluded(Opened(AttachTo(r, facts), s, us, facts), facts)
         IN  ProcessGsi(r, s, us, facts) =
               IF "MatchLeft" \in facts THEN [Reset(r) EXCEPT !.out = p.out] ELSE p
  BY Zenon DEF ProcessGsi, Concluded, Opened, Judged, Closed

(***************************************************************************)
(* A supplement.                                                           *)
(***************************************************************************)

\* What a supplement leaves of the state and of the round.
SupplementLeaves(r, q) ==
  /\ q.state = r.state /\ q.us = r.us /\ q.team = r.team /\ q.known = r.known
  /\ q.enemyTotal = r.enemyTotal /\ q.revision = r.revision
  /\ r.rosterChanged = TRUE => q.rosterChanged = TRUE

LEMMA TakingKeeps ==
  ASSUME NEW r, Settled(r), NEW snapshot, snapshot # None, Accepts(r, snapshot),
         snapshot.us \in Nat, snapshot.teams \in Published
  PROVE  LET q == [r EXCEPT !.supplement = snapshot, !.lastSupplementUs = snapshot.us,
                            !.out = <<>>]
         IN  /\ Sound(q)
             /\ \A f \in Fields \ {"supplement", "lastSupplementUs", "out"} : q[f] = r[f]
             /\ q.supplement = snapshot /\ q.out = <<>>
             /\ q.state # None => snapshot.us >= q.us /\ snapshot.us >= q.start
  <1> DEFINE q == [r EXCEPT !.supplement = snapshot, !.lastSupplementUs = snapshot.us,
                            !.out = <<>>]
  <1>1. /\ IsResolver(q) /\ q.out = <<>> /\ q.supplement = snapshot
        /\ \A f \in Fields \ {"supplement", "lastSupplementUs", "out"} : q[f] = r[f]
    BY DEF Settled, Sound, WellFormed, IsResolver, Fields
  <1> HIDE DEF q
  <1>2. /\ q.maxAge = r.maxAge /\ q.us = r.us /\ q.start = r.start /\ q.known = r.known
        /\ q.ended = r.ended /\ q.rosterChanged = r.rosterChanged
        /\ q.aceEmitted = r.aceEmitted /\ q.team = r.team
        /\ q.clutchActive = r.clutchActive /\ q.clutchEnemy = r.clutchEnemy
        /\ q.state = r.state /\ q.enemyTotal = r.enemyTotal /\ q.revision = r.revision
        /\ q.ctx = r.ctx
    BY <1>1 DEF Fields
  <1>3. q.state # None => snapshot.us >= q.us /\ snapshot.us >= q.start
    <2>1. /\ q.us \in Nat /\ q.start \in Nat /\ q.start <= q.us
          /\ q.state # None => snapshot.us >= q.us
      BY <1>2 DEF Settled, Sound, WellFormed, Accepts
    <2>2. QED
      BY <2>1
  <1>4. WellFormed(q)
    <2>1. ValidTeamCounts(snapshot.teams)
      BY DEF Accepts
    <2>2. QED
      BY <1>1, <1>2, <2>1 DEF Settled, Sound, WellFormed
  <1>5. ContextAgrees(q) /\ BeginsUnknowing(q) /\ ClutchHasGrounds(q) /\ BaselineHasGrounds(q)
    BY <1>1, <1>2, <1>3 DEF Settled, Sound, ContextAgrees, BeginsUnknowing, ClutchHasGrounds,
                BaselineHasGrounds
  <1>6. QED
    BY <1>1, <1>3, <1>4, <1>5 DEF Sound, q

LEMMA SupplementKeeps ==
  ASSUME NEW r, Settled(r), NEW snapshot, snapshot # None,
         snapshot.us \in Nat, snapshot.teams \in Published
  PROVE  LET q == ProcessSupplementary(r, snapshot)
         IN  /\ Settled(q)
             /\ SupplementLeaves(r, q)
             /\ q.supplement = IF Accepts(r, snapshot) THEN snapshot ELSE r.supplement
             /\ /\ Accepts(r, snapshot)
                /\ r.known /\ r.enemyTotal # None /\ q.rosterChanged = FALSE
                /\ r.revision # None /\ snapshot.revision # None
                => snapshot.revision = r.revision
             /\ TellsOfCall(r, r.clutchEnemy, q)
  <1> DEFINE q == ProcessSupplementary(r, snapshot)
             taken == [r EXCEPT !.supplement = snapshot, !.lastSupplementUs = snapshot.us,
                                !.out = <<>>]
  <1>1. CASE ~Accepts(r, snapshot)
    <2>1. q = [r EXCEPT !.out = <<>>]
      BY <1>1 DEF ProcessSupplementary
    <2> HIDE DEF q
    <2>2. /\ Settled(q) /\ q.out = <<>>
          /\ \A f \in Fields \ {"out"} : q[f] = r[f]
      <3> DEFINE nothing == <<>>
      <3>1. q = [r EXCEPT !.out = nothing]
        BY <2>1
      <3> HIDE DEF nothing
      <3>2. /\ Settled(q) /\ q.out = nothing
            /\ \A f \in Fields \ {"out"} : q[f] = r[f]
        BY <3>1, OnlyOutChanges
      <3>3. QED
        BY <3>2 DEF nothing
    <2>3. /\ SupplementLeaves(r, q) /\ q.supplement = r.supplement
          /\ q.clutchEnemy = r.clutchEnemy /\ q.aceEmitted = r.aceEmitted
      BY <2>2 DEF SupplementLeaves, Fields
    <2>4. TellsOfCall(r, r.clutchEnemy, q)
      <3>1. Tells(q.out, 0, r.clutchEnemy, q.clutchEnemy, 0)
        BY <2>2, <2>3, NothingTells
      <3>2. Tells(q.out, 2, r.clutchEnemy, q.clutchEnemy, 0)
        BY <3>1 DEF Tells
      <3>3. QED
        BY <2>3, <3>2 DEF TellsOfCall
    <2>5. QED
      BY <1>1, <2>2, <2>3, <2>4 DEF q
  <1>2. ASSUME Accepts(r, snapshot)
        PROVE  /\ Sound(taken)
               /\ \A f \in Fields \ {"supplement", "lastSupplementUs", "out"} : taken[f] = r[f]
               /\ taken.supplement = snapshot /\ taken.out = <<>>
               /\ taken.state # None => snapshot.us >= taken.us /\ snapshot.us >= taken.start
    BY <1>2, TakingKeeps
  <1>3. q = IF ~Accepts(r, snapshot) THEN [r EXCEPT !.out = <<>>]
            ELSE IF r.state = None THEN taken ELSE Evaluate(taken)
    BY DEF ProcessSupplementary
  <1> HIDE DEF taken, q
  <1>4. CASE Accepts(r, snapshot)
    <2>1. /\ taken.state = r.state /\ taken.us = r.us /\ taken.team = r.team
          /\ taken.known = r.known /\ taken.enemyTotal = r.enemyTotal
          /\ taken.revision = r.revision /\ taken.rosterChanged = r.rosterChanged
          /\ taken.clutchEnemy = r.clutchEnemy /\ taken.aceEmitted = r.aceEmitted
      BY <1>2, <1>4 DEF Fields
    <2>2. Tells(taken.out, 0, r.clutchEnemy, taken.clutchEnemy, 0)
      BY <1>2, <1>4, <2>1, NothingTells
    <2>3. CASE r.state = None
      <3>1. q = taken
        BY <1>3, <1>4, <2>3
      <3>2. Settled(q)
        BY <1>2, <1>4, <2>1, <2>3, <3>1
           DEF Settled, Sound, BeginsUnknowing, ClutchHasGrounds, WellFormed, ClutchIsJudged,
               CountsAreShown
      <3>3. ~r.known
        BY <2>3 DEF Settled, Sound, BeginsUnknowing
      <3>4. TellsOfCall(r, r.clutchEnemy, q)
        BY <2>1, <2>2, <3>1 DEF TellsOfCall, Tells
      <3>5. QED
        BY <1>2, <1>4, <2>1, <3>1, <3>2, <3>3, <3>4 DEF SupplementLeaves, q
    <2>4. CASE r.state # None
      <3>1. q = Evaluate(taken)
        BY <1>3, <1>4, <2>4
      <3>2. Judges(taken)
        BY <1>2, <1>4, <2>1, <2>4 DEF Judges
      <3>3. /\ Sound(q)
            /\ \A f \in Fields \ EvaluatedFields : q[f] = taken[f]
            /\ q.clutchActive => ClutchIsOn(q)
            /\ q.ctx.counts = Perspective(q)
            /\ taken.rosterChanged = TRUE => q.rosterChanged = TRUE
            /\ /\ taken.known /\ taken.enemyTotal # None /\ q.rosterChanged = FALSE
               /\ taken.revision # None /\ taken.supplement.revision # None
               => taken.supplement.revision = taken.revision
            /\ TellsOfCall(taken, r.clutchEnemy, q)
        BY <1>2, <1>4, <2>2, <3>1, <3>2, EvaluationKeeps
      <3>4. /\ q.state = taken.state /\ q.us = taken.us /\ q.team = taken.team
            /\ q.known = taken.known /\ q.enemyTotal = taken.enemyTotal
            /\ q.revision = taken.revision /\ q.supplement = snapshot
            /\ q.start = taken.start
        BY <1>2, <1>4, <3>3 DEF Fields, EvaluatedFields
      <3>5. SupplementLeaves(r, q)
        BY <2>1, <3>3, <3>4 DEF SupplementLeaves
      <3>6. ClutchIsJudged(q)
        BY <3>3 DEF ClutchIsJudged
      <3>7. CountsAreShown(q)
        <4>1. /\ q.us \in Nat /\ q.supplement.us >= q.us /\ q.supplement.us >= q.start
              /\ q.maxAge \in Nat \cup {None}
          BY <1>2, <1>4, <2>1, <2>4, <3>3, <3>4 DEF Sound, WellFormed
        <4>2. q.supplement.us <= q.us => FreshAt(q.supplement, q.us, q.maxAge)
          <5>1. q.supplement.us \in Nat
            BY <3>4
          <5>2. q.supplement.us <= q.us => q.us - q.supplement.us = 0
            BY <4>1, <5>1
          <5>3. QED
            BY <4>1, <5>2 DEF FreshAt
        <4>3. QED
          BY <3>3, <3>4, <4>1, <4>2 DEF CountsAreShown
      <3>8. TellsOfCall(r, r.clutchEnemy, q)
        BY <2>1, <3>3 DEF TellsOfCall, AceIsDue
      <3>9. QED
        BY <1>2, <1>4, <2>1, <3>3, <3>4, <3>5, <3>6, <3>7, <3>8 DEF Settled, q
    <2>5. QED
      BY <2>3, <2>4
  <1>5. QED
    BY <1>1, <1>4

(***************************************************************************)
(* The inductive invariant.                                                *)
(***************************************************************************)

ClockGoesOn ==
  now \in Nat /\ lastGate \in Nat /\ lastGate <= now /\ resolver.us <= lastGate

StateIsLatest ==
  /\ previous \in Snapshots \cup {None}
  /\ resolver.state \in {previous, None}
  /\ resolver.known => Attached

OriginIsKnown == DOMAIN origin = {"supplement", "round", "team"} /\ NothingIsInherited

ReadersAgree == reported = resolver.clutchEnemy

AcesAreCounted == aces \in {0, 1} /\ (resolver.known /\ ~resolver.aceEmitted => aces = 0)

\* A baseline that still holds has the one revision that was published.
RosterIsOne ==
  RequireRevision /\ resolver.known /\ resolver.enemyTotal # None /\ ~resolver.rosterChanged
  => revisions = {resolver.revision}

AceWasProven ==
  AcesIn(resolver.out) > 0 =>
    resolver.known /\ (RequireRevision => revisions = {resolver.revision})

Inv ==
  /\ Settled(resolver)
  /\ ClockGoesOn
  /\ StateIsLatest
  /\ OriginIsKnown
  /\ ReadersAgree
  /\ AcesAreCounted
  /\ RosterIsOne
  /\ AceWasProven

(***************************************************************************)
(* The initial state and the steps.                                        *)
(***************************************************************************)

LEMMA InitInv == Init => Inv
  <1> SUFFICES ASSUME Init PROVE Inv
    OBVIOUS
  <1>1. PICK maxAge \in MaxAges : resolver = Fresh(maxAge)
    BY DEF Init, ResolverInit
  <1>2. /\ IsResolver(resolver)
        /\ resolver.maxAge = maxAge /\ resolver.out = <<>>
        /\ resolver.state = None /\ resolver.supplement = None /\ resolver.team = None
        /\ resolver.us = 0 /\ resolver.start = 0
        /\ resolver.known = FALSE /\ resolver.ended = FALSE
        /\ resolver.rosterChanged = FALSE /\ resolver.aceEmitted = FALSE
        /\ resolver.enemyTotal = None /\ resolver.clutchActive = FALSE
        /\ resolver.clutchEnemy = None
        /\ resolver.ctx.counts = None /\ resolver.ctx.clutchActive = FALSE
        /\ resolver.ctx.clutchOpponents = None /\ resolver.ctx.rosterChanged = FALSE
    BY <1>1, FreshFields
  <1>3. Settled(resolver)
    <2>1. resolver.us \in Nat /\ resolver.start \in Nat /\ resolver.start <= resolver.us
      BY <1>2
    <2>2. WellFormed(resolver)
      BY <1>2, <2>1, AgeAssumption DEF WellFormed
    <2>3. QED
      BY <1>2, <2>2 DEF Settled, Sound, ContextAgrees, BeginsUnknowing, ClutchHasGrounds,
                        BaselineHasGrounds, ClutchIsJudged, CountsAreShown
  <1>4. ClockGoesOn
    BY <1>2 DEF Init, ClockGoesOn
  <1>5. StateIsLatest /\ OriginIsKnown
    BY <1>2 DEF Init, DetectorInit, StateIsLatest, OriginIsKnown, NothingIsInherited, Nothing,
                Attached, Map
  <1>6. ReadersAgree /\ AcesAreCounted /\ RosterIsOne
    BY <1>2 DEF Init, ReadersAgree, AcesAreCounted, RosterIsOne
  <1>7. AceWasProven
    <2>1. AcesIn(resolver.out) = 0
      BY <1>2, NothingTold
    <2>2. QED
      BY <2>1 DEF AceWasProven
  <1>8. QED
    BY <1>3, <1>4, <1>5, <1>6, <1>7 DEF Inv

LEMMA TickKeeps ==
  ASSUME Inv, Tick
  PROVE  Inv'
  <1>1. /\ resolver' = resolver /\ previous' = previous /\ origin' = origin
        /\ reported' = reported /\ aces' = aces /\ revisions' = revisions
        /\ lastGate' = lastGate /\ now' = now + 1
    BY DEF Tick, historyVars
  <1>2. ClockGoesOn'
    <2>1. now \in Nat /\ lastGate \in Nat /\ lastGate <= now /\ resolver.us <= lastGate
      BY DEF Inv, ClockGoesOn
    <2>2. QED
      BY <1>1, <2>1 DEF ClockGoesOn
  <1>3. Settled(resolver)' /\ StateIsLatest'
    BY <1>1 DEF Inv, StateIsLatest, Attached, Map
  <1>4. OriginIsKnown'
    BY <1>1 DEF Inv, OriginIsKnown, NothingIsInherited, Attached, Map
  <1>5. ReadersAgree' /\ AcesAreCounted' /\ RosterIsOne' /\ AceWasProven'
    BY <1>1 DEF Inv, ReadersAgree, AcesAreCounted, RosterIsOne, AceWasProven
  <1>6. QED
    BY <1>2, <1>3, <1>4, <1>5 DEF Inv

\* A supplement, for the resolver and what the history makes of it.
LEMMA SupplementaryItemKeeps ==
  ASSUME Inv, NEW item \in Supplements, NEW us \in 0 .. now,
         ProcessSupplementaryItem(item, us)
  PROVE  Inv'
  <1> DEFINE r == resolver
             q == resolver'
             snapshot == [us |-> us, revision |-> item.revision, teams |-> item.teams]
  <1>1. /\ q = ProcessSupplementary(r, snapshot)
        /\ reported' = Told(reported, q.out)
        /\ IF Accepts(r, snapshot)
           THEN /\ origin' = [origin EXCEPT !.supplement = Map]
                /\ revisions' = revisions \cup RevisionOf(snapshot)
           ELSE origin' = origin /\ revisions' = revisions
        /\ aces' = aces + AcesIn(q.out)
        /\ previous' = previous /\ now' = now /\ lastGate' = lastGate
    BY DEF ProcessSupplementaryItem, RecordSupplementary
  <1>2. /\ snapshot # None /\ snapshot.us \in Nat /\ snapshot.teams \in Published
        /\ snapshot.revision = item.revision
    <2>1. us \in Nat
      BY DEF Inv, ClockGoesOn
    <2>2. snapshot \in [us : Nat, revision : {i.revision : i \in Supplements},
                        teams : {i.teams : i \in Supplements}]
      BY <2>1
    <2>3. QED
      BY <2>1, <2>2, AbsentAssumption DEF Published
  <1> HIDE DEF snapshot
  <1>3. /\ Settled(q)
        /\ SupplementLeaves(r, q)
        /\ q.supplement = IF Accepts(r, snapshot) THEN snapshot ELSE r.supplement
        /\ /\ Accepts(r, snapshot)
           /\ r.known /\ r.enemyTotal # None /\ q.rosterChanged = FALSE
           /\ r.revision # None /\ snapshot.revision # None
           => snapshot.revision = r.revision
        /\ TellsOfCall(r, r.clutchEnemy, q)
    <2>1. Settled(r)
      BY DEF Inv
    <2> HIDE DEF q, r
    <2>2. QED
      BY <1>1, <1>2, <2>1, SupplementKeeps
  <1>4. r.rosterChanged \in BOOLEAN /\ r.known \in BOOLEAN /\ q.rosterChanged \in BOOLEAN
    BY <1>3 DEF Inv, Settled, Sound, WellFormed
  <1>5. ClockGoesOn'
    BY <1>1, <1>3 DEF Inv, ClockGoesOn, SupplementLeaves
  <1>6. StateIsLatest'
    BY <1>1, <1>3 DEF Inv, StateIsLatest, SupplementLeaves, Attached, Map
  <1>7. OriginIsKnown'
    BY <1>1, <1>3 DEF Inv, OriginIsKnown, NothingIsInherited, SupplementLeaves, Attached, Map
  <1>8. PICK n \in {0, 1} :
          /\ Tells(q.out, 2, r.clutchEnemy, q.clutchEnemy, n)
          /\ IF n = 1 THEN AceIsDue(r, q) ELSE q.aceEmitted = r.aceEmitted
    BY <1>3 DEF TellsOfCall
  <1>9. AcesIn(q.out) = n
    BY <1>8 DEF Tells
  <1>10. ReadersAgree'
    BY <1>1, <1>8 DEF Inv, ReadersAgree, Tells
  <1>11. AcesAreCounted'
    BY <1>1, <1>3, <1>8, <1>9 DEF Inv, AcesAreCounted, AceIsDue, SupplementLeaves
  <1>12. RosterIsOne'
    <2> SUFFICES ASSUME RequireRevision, q.known, q.enemyTotal # None, ~q.rosterChanged
                 PROVE  revisions' = {q.revision}
      BY DEF RosterIsOne
    <2>1. r.known /\ r.enemyTotal # None /\ ~r.rosterChanged /\ q.revision = r.revision
      BY <1>3, <1>4 DEF SupplementLeaves
    <2>2. revisions = {r.revision}
      BY <2>1 DEF Inv, RosterIsOne
    <2>3. r.revision # None
      BY <2>1 DEF Inv, Settled, Sound, BaselineHasGrounds
    <2>4. Accepts(r, snapshot) => snapshot.revision \in {None, r.revision}
      BY <1>3, <1>4, <2>1, <2>3
    <2>5. QED
      BY <1>1, <2>1, <2>2, <2>4 DEF RevisionOf
  <1>13. AceWasProven'
    <2> SUFFICES ASSUME n = 1
                 PROVE  q.known /\ (RequireRevision => revisions' = {q.revision})
      BY <1>9 DEF AceWasProven
    <2>1. r.known /\ r.enemyTotal # None /\ q.rosterChanged = FALSE
      BY <1>8 DEF AceIsDue
    <2>2. QED
      BY <1>3, <1>12, <2>1 DEF RosterIsOne, SupplementLeaves
  <1>14. Settled(resolver)'
    BY <1>3
  <1>15. QED
    BY <1>5, <1>6, <1>7, <1>10, <1>11, <1>12, <1>13, <1>14 DEF Inv

\* A payload, for the resolver and what the history makes of it.
LEMMA GsiItemKeeps ==
  ASSUME Inv, NEW s \in Snapshots, NEW us \in 0 .. now, ProcessGsiItem(s, us)
  PROVE  Inv'
  <1> DEFINE r == resolver
             q == resolver'
             b == AttachTo(r, Facts)
             o == Opened(b, s, us, Facts)
             p == Concluded(o, Facts)
             starts == "RoundStarted" \in Facts
             enters == "MatchEntered" \in Facts
             leaves == "MatchLeft" \in Facts
  <1>1. /\ LeavesFirst(s) /\ us >= lastGate /\ Process(s)
        /\ q = ProcessGsi(r, s, us, Facts)
        /\ lastGate' = now /\ now' = now
        /\ RecordGsi(s, Facts)
    BY DEF ProcessGsiItem, Facts
  <1>2. /\ previous' = s /\ Map' = s.map_name
        /\ leaves <=> Map # None /\ s.map_name = None
        /\ enters <=> Map = None /\ s.map_name # None
        /\ starts => /\ previous # None /\ previous.round_phase = "freezetime"
                     /\ s.round_phase = "live"
    BY <1>1, FactsOfPayload
  <1>3. /\ s # None
        /\ s.map_name = None => /\ s.round_phase # "live"
                                /\ ~SupportedRoundModeForAce(s.map_mode)
    BY GameOfSnapshots
  <1>4. /\ reported' = Told(IF starts /\ Unjudged THEN None ELSE reported, q.out)
        /\ origin' = [(IF enters \/ leaves THEN Nothing ELSE origin) EXCEPT
                        !.round = IF starts THEN s.map_name ELSE @,
                        !.team = IF s.local /\ s.team # None THEN s.map_name ELSE @]
        /\ revisions' = IF ~starts THEN revisions
                        ELSE IF q.supplement = None THEN {} ELSE RevisionOf(q.supplement)
        /\ aces' = (IF starts THEN 0 ELSE aces) + AcesIn(q.out)
    BY <1>1 DEF RecordGsi
  <1>5. /\ Settled(r) /\ us \in Nat /\ r.us <= us /\ us <= now
        /\ r.known => Attached
    BY <1>1 DEF Inv, ClockGoesOn, StateIsLatest, Settled, Sound, WellFormed
  <1>6. /\ Settled(Reset(r))
        /\ Reset(r).state = None /\ Reset(r).supplement = None /\ Reset(r).team = None
        /\ Reset(r).us = 0 /\ Reset(r).known = FALSE /\ Reset(r).enemyTotal = None
        /\ Reset(r).clutchEnemy = None
    BY <1>5, ResetIsSettled DEF Settled
  <1>7. r.known = FALSE => r.clutchActive = FALSE /\ r.clutchEnemy = None
    BY <1>5 DEF Settled, Sound, WellFormed, ContextAgrees, ClutchHasGrounds
  <1>8. /\ Sound(b) /\ b.us <= us /\ b.clutchEnemy = r.clutchEnemy
        /\ IF enters THEN b.known = FALSE /\ b.supplement = None /\ b.team = None ELSE b = r
    <2>1. CASE enters
      <3>1. b = Reset(r)
        BY <2>1 DEF AttachTo
      <3>2. r.known = FALSE
        BY <1>2, <1>5, <2>1 DEF Attached, Settled, Sound, WellFormed
      <3> HIDE DEF b, r, enters
      <3>3. QED
        BY <1>5, <1>6, <1>7, <2>1, <3>1, <3>2 DEF Settled
    <2>2. CASE ~enters
      <3>1. b = r
        BY <2>2 DEF AttachTo
      <3>2. QED
        BY <1>5, <2>2, <3>1 DEF Settled
    <2>3. QED
      BY <2>1, <2>2
  <1> HIDE DEF b
  <1>9. /\ Sound(o)
        /\ o.state = s /\ o.us = us /\ o.out = <<>> /\ o.supplement = b.supplement
        /\ o.team = IF s.local /\ s.team # None THEN s.team ELSE b.team
        /\ IF starts THEN RoundIsNew(o) ELSE RoundGoesOn(b, o)
    BY <1>5, <1>8, OpeningKeeps
  <1> HIDE DEF o
  <1>10. /\ Settled(p)
         /\ p.state = s /\ p.us = us /\ p.supplement = o.supplement
         /\ p.team = o.team /\ p.known = o.known
         /\ p.enemyTotal = o.enemyTotal /\ p.revision = o.revision
         /\ o.rosterChanged = TRUE => p.rosterChanged = TRUE
         /\ leaves => p.clutchEnemy = None
         /\ TellsOfPayload(o, p)
    BY <1>3, <1>9, ConclusionKeeps
  <1>11. q = IF leaves THEN [Reset(r) EXCEPT !.out = p.out] ELSE p
    BY <1>1, PayloadInParts DEF b, o
  <1> HIDE DEF p
  <1>12. PICK n \in {0, 1} :
           /\ Tells(p.out, 3, o.clutchEnemy, p.clutchEnemy, n)
           /\ IF n = 1 THEN AceIsDue(o, p) ELSE p.aceEmitted = o.aceEmitted
    BY <1>10 DEF TellsOfPayload
  <1>13. leaves => n = 0 /\ ~starts
    BY <1>2, <1>3, <1>9, <1>12 DEF AceIsDue
  <1>14. leaves => /\ Settled(q) /\ q.out = p.out /\ q.state = None /\ q.us = 0
                   /\ q.known = FALSE /\ q.clutchEnemy = None
    <2> SUFFICES ASSUME leaves
                 PROVE  /\ Settled(q) /\ q.out = p.out /\ q.state = None /\ q.us = 0
                        /\ q.known = FALSE /\ q.clutchEnemy = None
      OBVIOUS
    <2>1. q = [Reset(r) EXCEPT !.out = p.out]
      BY <1>11
    <2> HIDE DEF q, r
    <2>2. /\ Settled(q) /\ q.out = p.out
          /\ \A f \in Fields \ {"out"} : q[f] = Reset(r)[f]
      BY <1>6, <2>1, OnlyOutChanges
    <2>3. QED
      BY <1>6, <2>2 DEF Fields
  <1>15. /\ Settled(q) /\ q.out = p.out /\ q.clutchEnemy = p.clutchEnemy
         /\ ~leaves => q = p
    BY <1>10, <1>11, <1>14
  <1>16. AcesIn(q.out) = n
    BY <1>12, <1>15 DEF Tells
  <1>17. ~starts /\ o.known => b = r /\ r.known
    BY <1>8, <1>9 DEF RoundGoesOn
  <1>18. ClockGoesOn'
    BY <1>1, <1>5, <1>10, <1>14, <1>15 DEF Inv, ClockGoesOn
  <1>19. StateIsLatest'
    <2>1. q.state \in {s, None}
      BY <1>10, <1>14, <1>15
    <2>2. q.known => s.map_name # None
      BY <1>2, <1>3, <1>5, <1>10, <1>14, <1>15, <1>17 DEF Attached
    <2>3. QED
      BY <1>2, <2>1, <2>2 DEF StateIsLatest, Attached
  <1>20. OriginIsKnown'
    <2>1. DOMAIN origin' = {"supplement", "round", "team"}
      BY <1>4 DEF Inv, OriginIsKnown, Nothing
    <2>2. ASSUME s.map_name # None
          PROVE  /\ p.supplement # None => origin'.supplement = s.map_name
                 /\ p.known => origin'.round = s.map_name
                 /\ p.team # None => origin'.team = s.map_name
      <3>1. CASE enters
        <4>1. ~starts => o.known = FALSE
          BY <1>8, <1>9, <3>1 DEF RoundGoesOn
        <4>2. QED
          BY <1>4, <1>8, <1>9, <1>10, <3>1, <4>1 DEF Nothing
      <3>2. CASE ~enters
        <4>1. Map = s.map_name /\ Attached /\ ~leaves /\ b = r
          BY <1>1, <1>2, <1>8, <2>2, <3>2 DEF LeavesFirst, Attached
        <4>2. /\ DOMAIN origin = {"supplement", "round", "team"}
              /\ r.supplement # None => origin.supplement = s.map_name
              /\ r.known => origin.round = s.map_name
              /\ r.team # None => origin.team = s.map_name
          BY <4>1 DEF Inv, OriginIsKnown, NothingIsInherited
        <4>3. ~starts => o.known = r.known
          BY <1>9, <4>1 DEF RoundGoesOn
        <4>4. QED
          BY <1>4, <1>9, <1>10, <3>2, <4>1, <4>2, <4>3
      <3>3. QED
        BY <3>1, <3>2
    <2>3. NothingIsInherited'
      BY <1>2, <1>15, <2>2 DEF NothingIsInherited, Attached
    <2>4. QED
      BY <2>1, <2>3 DEF OriginIsKnown
  <1>21. ReadersAgree'
    <2>1. (IF starts /\ Unjudged THEN None ELSE reported) = o.clutchEnemy
      <3>1. reported = r.clutchEnemy
        BY DEF Inv, ReadersAgree
      <3>2. CASE ~starts
        BY <1>8, <1>9, <3>1, <3>2 DEF RoundGoesOn
      <3>3. CASE starts
        <4>1. o.clutchEnemy = None
          BY <1>9, <3>3 DEF RoundIsNew
        <4>2. CASE Unjudged
          BY <3>3, <4>1, <4>2
        <4>3. CASE ~r.clutchActive
          BY <1>5, <3>1, <4>1, <4>3 DEF Settled, Sound, ContextAgrees
        <4>4. CASE r.clutchActive /\ ~Unjudged
          <5>1. r.state.round_phase = "live" /\ r.known
            BY <1>5, <4>4 DEF Unjudged, Settled, Sound, ClutchIsJudged, ClutchIsOn,
                              ClutchHasGrounds
          <5>2. r.state = previous
            BY <1>5, <5>1 DEF Inv, StateIsLatest, Settled, Sound, BeginsUnknowing
          <5>3. QED
            BY <1>2, <3>3, <5>1, <5>2
        <4>5. QED
          BY <4>2, <4>3, <4>4
      <3>4. QED
        BY <3>2, <3>3
    <2>2. QED
      BY <1>4, <1>12, <1>15, <2>1 DEF ReadersAgree, Tells
  <1>22. AcesAreCounted'
    <2>1. aces \in {0, 1} /\ (r.known /\ ~r.aceEmitted => aces = 0)
      BY DEF Inv, AcesAreCounted
    <2>2. ~starts /\ o.known /\ ~o.aceEmitted => aces = 0
      BY <1>9, <1>17, <2>1 DEF RoundGoesOn
    <2>3. n = 1 => o.known /\ ~o.aceEmitted /\ p.aceEmitted
      BY <1>12 DEF AceIsDue
    <2>4. q.known /\ ~q.aceEmitted => o.known /\ ~p.aceEmitted
      BY <1>10, <1>14, <1>15
    <2>5. n = 0 => p.aceEmitted = o.aceEmitted
      BY <1>12
    <2>6. aces' = (IF starts THEN 0 ELSE aces) + n
      BY <1>4, <1>16
    <2> HIDE DEF q, starts
    <2>7. aces' \in {0, 1}
      BY <2>1, <2>2, <2>3, <2>6
    <2>8. q.known /\ ~q.aceEmitted => aces' = 0
      BY <2>1, <2>2, <2>3, <2>4, <2>5, <2>6
    <2>9. QED
      BY <2>7, <2>8 DEF AcesAreCounted, q
  <1>23. RosterIsOne'
    <2> SUFFICES ASSUME RequireRevision, q.known, q.enemyTotal # None, ~q.rosterChanged
                 PROVE  revisions' = {q.revision}
      BY DEF RosterIsOne
    <2>1. q = p
      BY <1>14, <1>15
    <2>2. o.enemyTotal # None /\ q.revision = o.revision /\ q.revision # None
      BY <1>10, <2>1 DEF Settled, Sound, BaselineHasGrounds
    <2>3. CASE starts
      <3>1. q.supplement # None /\ q.revision = q.supplement.revision
        BY <1>9, <1>10, <2>1, <2>2, <2>3 DEF RoundIsNew
      <3>2. QED
        BY <1>4, <2>2, <2>3, <3>1 DEF RevisionOf
    <2>4. CASE ~starts
      <3>1. o.rosterChanged \in BOOLEAN /\ p.rosterChanged \in BOOLEAN
        BY <1>9, <1>10 DEF Settled, Sound, WellFormed
      <3>2. /\ r.known /\ r.enemyTotal # None /\ ~r.rosterChanged
            /\ q.revision = r.revision
        BY <1>9, <1>10, <1>17, <2>1, <2>2, <2>4, <3>1 DEF RoundGoesOn
      <3>3. QED
        BY <1>4, <2>4, <3>2 DEF Inv, RosterIsOne
    <2>5. QED
      BY <2>3, <2>4
  <1>24. AceWasProven'
    <2> SUFFICES ASSUME n = 1
                 PROVE  q.known /\ (RequireRevision => revisions' = {q.revision})
      BY <1>12, <1>16 DEF AceWasProven
    <2>1. q = p
      BY <1>13, <1>15
    <2>2. o.known /\ o.enemyTotal # None /\ p.rosterChanged = FALSE
      BY <1>12 DEF AceIsDue
    <2>3. QED
      BY <1>10, <1>23, <2>1, <2>2 DEF RosterIsOne
  <1>25. Settled(resolver)'
    BY <1>15
  <1>26. QED
    BY <1>18, <1>19, <1>20, <1>21, <1>22, <1>23, <1>24, <1>25 DEF Inv

LEMMA NextInv == Inv /\ [Next]_vars => Inv'
  <1> SUFFICES ASSUME Inv, [Next]_vars PROVE Inv'
    OBVIOUS
  <1>1. CASE \E s \in Snapshots, us \in 0 .. now : ProcessGsiItem(s, us)
    BY <1>1, GsiItemKeeps
  <1>2. CASE \E item \in Supplements, us \in 0 .. now : ProcessSupplementaryItem(item, us)
    BY <1>2, SupplementaryItemKeeps
  <1>3. CASE Tick
    BY <1>3, TickKeeps
  <1>4. CASE UNCHANGED vars
    BY <1>4 DEF vars, Inv, ClockGoesOn, StateIsLatest, OriginIsKnown, NothingIsInherited,
                Attached, Map, ReadersAgree, AcesAreCounted, RosterIsOne, AceWasProven
  <1>5. QED
    BY <1>1, <1>2, <1>3, <1>4 DEF Next

THEOREM Invariance == Spec => []Inv
  BY InitInv, NextInv, PTL DEF Spec

(***************************************************************************)
(* What the pipeline promises.                                             *)
(***************************************************************************)

\* The context that is shown agrees with what the resolver goes by, and the
\* resolver's state is that of the latest payload (lines 43-76 and 106-134).
THEOREM ContextIsTrue ==
  Spec => []TypeOK
  <1>1. Inv => TypeOK
    <2> SUFFICES ASSUME Inv PROVE TypeOK
      OBVIOUS
    <2>1. /\ resolver.state = previous \/ resolver.state = None
          /\ resolver.start <= resolver.us
          /\ resolver.clutchActive <=> resolver.clutchEnemy # None
          /\ resolver.ctx.clutchActive = resolver.clutchActive
          /\ resolver.ctx.clutchOpponents = resolver.clutchEnemy
          /\ resolver.ctx.rosterChanged = resolver.rosterChanged
      BY DEF Inv, StateIsLatest, Settled, Sound, WellFormed, ContextAgrees
    <2>2. resolver.us <= now
      BY DEF Inv, ClockGoesOn, Settled, Sound, WellFormed
    <2>3. \A field \in {"known", "ended", "rosterChanged", "aceEmitted", "clutchActive"} :
            resolver[field] \in BOOLEAN
      BY DEF Inv, Settled, Sound, WellFormed
    <2>4. QED
      BY <2>1, <2>2, <2>3 DEF TypeOK
  <1>2. QED
    BY <1>1, Invariance, PTL

\* A clutch that is on is that of the running round, and the one that the
\* latest payload and a fresh supplement show (lines 234-289 and 391-409).
THEOREM ClutchesAreCurrent ==
  Spec => []ClutchIsCurrent
  <1>1. Inv => ClutchIsCurrent
    <2> SUFFICES ASSUME Inv, resolver.clutchActive
                 PROVE  /\ Attached /\ resolver.known /\ ~resolver.ended
                        /\ resolver.supplement.us >= resolver.start
                        /\ FreshAt(resolver.supplement, resolver.us, resolver.maxAge) =>
                             ClutchIsOn(resolver)
      BY DEF ClutchIsCurrent, ClutchIsOn
    <2>1. QED
      BY DEF Inv, StateIsLatest, Settled, Sound, ClutchHasGrounds, ClutchIsJudged
  <1>2. QED
    BY <1>1, Invariance, PTL

\* The clutch events tell the story of the resolver's clutch, and a round that
\* starts drops in silence only a clutch that could not be judged.
THEOREM ClutchEventsAreConsistent ==
  Spec => []ClutchEventsAlternate
  <1>1. Inv => ClutchEventsAlternate
    BY DEF Inv, ReadersAgree, ClutchEventsAlternate, Settled, Sound, ContextAgrees
  <1>2. QED
    BY <1>1, Invariance, PTL

\* What is known of one match was learnt in it (lines 340-342 and 401-406).
THEOREM MatchesAreSeparate ==
  Spec => []NothingIsInherited
  <1>1. Inv => NothingIsInherited
    BY DEF Inv, OriginIsKnown
  <1>2. QED
    BY <1>1, Invariance, PTL

\* The counts shown are of the running round and as fresh as configured.
THEOREM CountsAreCurrent ==
  Spec => []CountsAreOfThisRound
  <1>1. Inv => CountsAreOfThisRound
    BY DEF Inv, Settled, CountsAreShown, CountsAreOfThisRound
  <1>2. QED
    BY <1>1, Invariance, PTL

\* Where a roster revision is required, an ace is reported at most once per
\* round, in one that was seen to start, with one revision published since.
THEOREM AcesAreProven ==
  ASSUME RequireRevision
  PROVE  Spec => []AceIsProven
  <1>1. Inv => AceIsProven
    BY DEF Inv, AcesAreCounted, AceWasProven, AceIsProven
  <1>2. QED
    BY <1>1, Invariance, PTL

=============================================================================

-------------------------- MODULE SemanticPipeline --------------------------
(***************************************************************************)
(* The worker of the live pipeline as it processes the items of its queue  *)
(* (src/src/live_event_pipeline.cpp lines 90-116; the analyze command does *)
(* the same over a recording): the detector, then the resolver.            *)
(*                                                                         *)
(* An item carries the time of its observation: for a payload that when    *)
(* its body was complete, for a supplement the one its provider gives it.  *)
(* Both may be in the past when the item gets through the ingress gate,    *)
(* whose order is the order here: a payload because it is acknowledged     *)
(* first and may wait for the gate, up to GateDelay; a supplement because  *)
(* its provider held it back.  The connections are served one at a time,   *)
(* so the body of a payload is complete after the payload before it got    *)
(* through.                                                                *)
(***************************************************************************)
EXTENDS EventDetector, SemanticResolver, FiniteSets

CONSTANTS
  MaxNow,      \* bound on the clock
  GateDelay    \* the longest time between a complete body and the gate

\* An age is an optional uint64_t.
ASSUME AgeAssumption == MaxAges \subseteq Nat \cup {None}

\* The menu shows no round and no mode, and players are in one of two teams.
ASSUME GameAssumption ==
  \A payload \in Payloads :
    /\ payload.map_name = None => /\ payload.round_phase # "live"
                                  /\ ~SupportedRoundModeForAce(payload.map_mode)
    /\ payload.team \in {"CT", "T", None}

VARIABLES
  now,           \* the clock
  lastGate,      \* when the last payload got through the gate
  reported,      \* history: the opponents of the clutch the events tell of
  origin,        \* history: the map at which match-local knowledge was learnt
  revisions,     \* history: the roster revisions accepted in the round
  aces           \* history: the aces reported in the round

environmentVars == <<now, lastGate>>
historyVars == <<reported, origin, revisions, aces>>
vars == <<previous, memory, events, resolver, now, lastGate,
          reported, origin, revisions, aces>>

-----------------------------------------------------------------------------
(* The history.                                                            *)

\* The clutch a reader of the events believes in after one more event, -1 for
\* one that makes no sense there.
TellClutch(told, e) ==
  CASE e.type = "ClutchStarted" /\ told = None -> e.value
    [] e.type = "ClutchUpdated" /\ told = e.from /\ e.value # e.from -> e.value
    [] e.type = "ClutchEnded" /\ told # None /\ told = e.value -> None
    [] e.type = "Ace" -> told
    [] OTHER -> -1

Told(before, out) ==
  LET told[i \in 0 .. Len(out)] == IF i = 0 THEN before ELSE TellClutch(told[i - 1], out[i])
  IN  told[Len(out)]

\* A clutch that is on in the state, and that the resolver could not judge by the
\* latest payload, for which the supplement was not fresh.
Unjudged == resolver.clutchActive /\ ~FreshAt(resolver.supplement, resolver.us, resolver.maxAge)

AcesIn(out) == Cardinality({i \in DOMAIN out : out[i].type = "Ace"})

Nothing == [supplement |-> None, round |-> None, team |-> None]

Map == IF previous = None THEN None ELSE previous.map_name

RevisionOf(snapshot) == {snapshot.revision} \ {None}

RecordGsi(s, facts) ==
  LET starts == "RoundStarted" \in facts
      forgets == facts \cap {"MatchEntered", "MatchLeft"} # {}
      kept == IF forgets THEN Nothing ELSE origin
  IN  /\ reported' = Told(IF starts /\ Unjudged THEN None ELSE reported, resolver'.out)
      /\ origin' = [kept EXCEPT !.round = IF starts THEN s.map_name ELSE @,
                                !.team = IF s.local /\ s.team # None THEN s.map_name ELSE @]
      /\ revisions' = IF ~starts THEN revisions
                      ELSE IF resolver'.supplement = None THEN {}
                      ELSE RevisionOf(resolver'.supplement)
      /\ aces' = (IF starts THEN 0 ELSE aces) + AcesIn(resolver'.out)

RecordSupplementary(snapshot) ==
  /\ reported' = Told(reported, resolver'.out)
  /\ IF Accepts(resolver, snapshot)
     THEN /\ origin' = [origin EXCEPT !.supplement = Map]
          /\ revisions' = revisions \cup RevisionOf(snapshot)
     ELSE UNCHANGED <<origin, revisions>>
  /\ aces' = aces + AcesIn(resolver'.out)

-----------------------------------------------------------------------------
(* The items.                                                              *)

Init ==
  /\ DetectorInit /\ ResolverInit
  /\ now = 0 /\ lastGate = 0
  /\ reported = None /\ origin = Nothing /\ revisions = {} /\ aces = 0

\* The game shows its menu between two maps.
LeavesFirst(s) == Map # None /\ s.map_name # None => s.map_name = Map

\* A payload whose body was complete at the time us.
ProcessGsiItem(s, us) ==
  /\ LeavesFirst(s)
  /\ us >= lastGate /\ us >= now - GateDelay
  /\ Process(s)
  /\ resolver' = ProcessGsi(resolver, s, us, EventTypes(events'))
  /\ lastGate' = now
  /\ RecordGsi(s, EventTypes(events'))
  /\ UNCHANGED now

\* A supplement that was observed at the time us.
ProcessSupplementaryItem(item, us) ==
  LET snapshot == [us |-> us, revision |-> item.revision, teams |-> item.teams]
  IN  /\ resolver' = ProcessSupplementary(resolver, snapshot)
      /\ RecordSupplementary(snapshot)
      /\ events' = <<>>
      /\ UNCHANGED <<previous, memory, now, lastGate>>

Tick ==
  /\ now < MaxNow
  /\ now' = now + 1
  /\ UNCHANGED <<previous, memory, events, resolver, lastGate, historyVars>>

Next ==
  \/ \E s \in Snapshots, us \in 0 .. now : ProcessGsiItem(s, us)
  \/ \E item \in Supplements, us \in 0 .. now : ProcessSupplementaryItem(item, us)
  \/ Tick

Spec == Init /\ [][Next]_vars

-----------------------------------------------------------------------------
(* Properties.                                                             *)

Attached == Map # None

\* The context a reader sees agrees with what the resolver goes by.
TypeOK ==
  /\ resolver.state = previous \/ resolver.state = None
  /\ resolver.us <= now /\ resolver.start <= resolver.us
  /\ resolver.clutchActive <=> resolver.clutchEnemy # None
  /\ resolver.ctx.clutchActive = resolver.clutchActive
  /\ resolver.ctx.clutchOpponents = resolver.clutchEnemy
  /\ resolver.ctx.rosterChanged = resolver.rosterChanged
  /\ \A field \in {"known", "ended", "rosterChanged", "aceEmitted", "clutchActive"} :
       resolver[field] \in BOOLEAN

\* As long as a clutch is on and the latest supplement is fresh, the round that
\* is live has not ended, the local player lives, and the opponents are those of
\* the supplement: nothing that ends a clutch leaves it on (lines 234-289,
\* 391-409).  A supplement is not fresh for a payload that was complete before it
\* was observed, nor when it is older than the configured age: the resolver does
\* not compare the two then, and the clutch stays until the next supplement or
\* the end of the round (lines 66-76, 369-389).
ClutchIsCurrent ==
  resolver.clutchActive =>
    /\ Attached /\ resolver.known /\ ~resolver.ended
    /\ FreshAt(resolver.supplement, resolver.us, resolver.maxAge) =>
         LET seen == Perspective(resolver)
         IN  /\ resolver.state.round_phase = "live"
             /\ resolver.alive = TRUE
             /\ resolver.supplement.us >= resolver.start
             /\ seen.local_alive = 1 /\ seen.enemy_alive = resolver.clutchEnemy

\* The clutch events tell a consistent story: a start, updates from the last
\* number to another one, an end, and so on, and it is the resolver's own.  The
\* start of a round drops a clutch in silence, but only one that could not be
\* judged by the payload before it (lines 106-134); a payload in order ends it.
ClutchEventsAlternate ==
  reported = IF resolver.clutchActive THEN resolver.clutchEnemy ELSE None

\* An ace is confirmed once per round, in a round whose start was seen, and
\* only when the provider published one roster revision since that start
\* (docs/SUPPLEMENTARY_STATE_ARCHITECTURE.md lines 89-103).
AceIsProven ==
  /\ aces <= 1
  /\ AcesIn(resolver.out) > 0 => /\ resolver.known
                                 /\ revisions = {resolver.revision}

\* Nothing of one match is known in the next: the supplement, the round and the
\* team were learnt at the map that is attached (lines 340-342 and 401-406).
NothingIsInherited ==
  Attached => /\ resolver.supplement # None => origin.supplement = Map
              /\ resolver.known => origin.round = Map
              /\ resolver.team # None => origin.team = Map

\* The counts shown are those of the running round, never of the one before, and
\* they were not too old for the latest payload (lines 114-133 and 369-389): a
\* supplement that was observed before it is within the configured age.
CountsAreOfThisRound ==
  resolver.ctx.counts # None =>
    /\ resolver.known => resolver.supplement.us >= resolver.start
    /\ resolver.supplement.us <= resolver.us =>
         FreshAt(resolver.supplement, resolver.us, resolver.maxAge)
    /\ resolver.ctx.counts = Perspective(resolver)

\* SESSION_005_FINDINGS.md: when the kill counter grows after round.phase=over,
\* the kills remain factual "without ... ace semantics": a kill that makes an ace
\* belongs to the live round, as one that makes an ACE_CANDIDATE does (lines
\* 226-231 of event_detector.cpp).
AceKillIsInLiveRound ==
  [][ AcesIn(resolver'.out) > 0 /\ "PlayerKill" \in EventTypes(events') =>
        "live" \in {previous.round_phase, previous'.round_phase} ]_vars

\* SUPPLEMENTARY_STATE_ARCHITECTURE.md: a clutch is derived when "GSI proves the
\* local player is alive and the round is live": when one starts, the latest
\* GSI state shows the local player, alive.
ClutchStartIsProvenByGsi ==
  [][ \A i \in DOMAIN resolver'.out : resolver'.out[i].type = "ClutchStarted" =>
        /\ resolver'.state.round_phase = "live"
        /\ resolver'.state.local /\ resolver'.state.stats.health > 0 ]_vars

=============================================================================

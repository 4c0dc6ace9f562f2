-------------------------- MODULE SemanticResolver --------------------------
(***************************************************************************)
(* The semantic resolver (src/src/semantic_resolver.cpp): clutches and     *)
(* aces from the factual events, the GSI state and supplementary counts.   *)
(*                                                                         *)
(* The operators take the resolver's state r and return it changed; an     *)
(* event they emit is appended to r.out, which a call starts empty.  The   *)
(* context's copies of fields of the GSI state are left out, and so is     *)
(* alive_delta; context.supplement_available is "ctx.counts # None".       *)
(***************************************************************************)
EXTENDS SupplementaryState, Sequences

CONSTANTS
  MaxAges,           \* what config_.max_supplement_age_us may be; None as deployed
  RequireRevision    \* config_.require_roster_revision_for_ace

VARIABLES
  resolver    \* the members of SemanticResolver

\* A resolver that knows nothing, for its configured age.
Fresh(maxAge) ==
  [maxAge |-> maxAge, state |-> None, us |-> 0, supplement |-> None, lastSupplementUs |-> None,
   team |-> None, alive |-> None, acquired |-> FALSE,
   known |-> FALSE, ended |-> FALSE, start |-> 0,
   enemyTotal |-> None, revision |-> None, rosterChanged |-> FALSE, aceEmitted |-> FALSE,
   clutchActive |-> FALSE, clutchEnemy |-> None,
   ctx |-> [lifecycle |-> "detached", acquired |-> FALSE, alive |-> None, counts |-> None,
            clutchActive |-> FALSE, clutchOpponents |-> None, rosterChanged |-> FALSE],
   out |-> <<>>]

ResolverInit == \E maxAge \in MaxAges : resolver = Fresh(maxAge)

\* reset() keeps the configuration.
Reset(r) == Fresh(r.maxAge)

-----------------------------------------------------------------------------

Emit(r, type, from, value) ==
  [r EXCEPT !.out = Append(@, [type |-> type, from |-> from, value |-> value])]

\* snapshot_fresh_at().
FreshAt(snapshot, us, maxAge) ==
  /\ snapshot.us <= us
  /\ maxAge # None => us - snapshot.us <= maxAge

\* The counts of the latest supplement as the local player sees them.
Perspective(r) ==
  IF r.supplement = None \/ r.team = None THEN None
  ELSE PerspectiveForTeam(r.supplement.teams, r.team)

Lifecycle(s) ==
  CASE s.map_name = None -> "detached"
    [] s.map_name # None /\ s.map_phase \in {"warmup", "gameover"} -> s.map_phase
    [] s.map_name # None /\ s.map_phase \notin {"warmup", "gameover"} ->
         CASE s.round_phase = "freezetime" -> "freezetime"
           [] s.round_phase = "live" -> "live-round"
           [] s.round_phase = "over" -> "post-round"
           [] OTHER -> "other"

UpdateLifecycleContext(r) ==
  [r EXCEPT !.ctx.lifecycle = Lifecycle(r.state),
            !.ctx.acquired = r.acquired, !.ctx.alive = r.alive]

UpdateContext(r) == [r EXCEPT !.ctx.counts = Perspective(r)]

EstablishRoundBaseline(r) ==
  LET seen == Perspective(r)
  IN  IF /\ r.known
         /\ RequireRevision => r.supplement.revision # None
         /\ seen # None
         /\ seen.enemy_total # None
      THEN [r EXCEPT !.enemyTotal = seen.enemy_total, !.revision = r.supplement.revision]
      ELSE r

\* Everything a round knows is forgotten, an active clutch too; a supplement
\* from before the round serves for the totals, its counts are not shown.
BeginRound(r) ==
  LET begun == [r EXCEPT !.known = TRUE, !.ended = FALSE, !.start = r.us,
                         !.enemyTotal = None, !.revision = None,
                         !.rosterChanged = FALSE, !.aceEmitted = FALSE,
                         !.clutchActive = FALSE, !.clutchEnemy = None,
                         !.ctx.rosterChanged = FALSE, !.ctx.clutchActive = FALSE,
                         !.ctx.clutchOpponents = None, !.ctx.counts = None]
  IN  IF r.supplement # None /\ FreshAt(r.supplement, r.us, r.maxAge)
      THEN EstablishRoundBaseline(begun) ELSE begun

ObserveRoster(r) ==
  LET seen == Perspective(r)
      changed == \/ r.rosterChanged
                 \/ seen.enemy_total # None /\ seen.enemy_total # r.enemyTotal
                 \/ /\ r.revision # None /\ r.supplement.revision # None
                    /\ r.supplement.revision # r.revision
  IN  IF r.known /\ r.enemyTotal # None /\ seen # None
      THEN [r EXCEPT !.rosterChanged = changed, !.ctx.rosterChanged = changed]
      ELSE r

-----------------------------------------------------------------------------
(* Clutches.                                                               *)

\* Mutant: the context goes on showing the clutch.
EndClutchInside(r) ==
  IF ~r.clutchActive THEN r
  ELSE [Emit(r, "ClutchEnded", None, r.clutchEnemy) EXCEPT
          !.clutchActive = FALSE, !.clutchEnemy = None]

EndClutch(r) ==
  IF ~r.clutchActive THEN r
  ELSE [Emit(r, "ClutchEnded", None, r.clutchEnemy) EXCEPT
          !.clutchActive = FALSE, !.clutchEnemy = None,
          !.ctx.clutchActive = FALSE, !.ctx.clutchOpponents = None]

\* Mutant: a dead player may clutch.
ClutchNowDead(r, seen) ==
  /\ r.state.round_phase = "live" /\ ~r.ended
  /\ seen.local_alive = 1 /\ seen.enemy_alive >= 1

ClutchNow(r, seen) ==
  /\ r.state.round_phase = "live" /\ ~r.ended
  /\ r.alive = TRUE
  /\ seen.local_alive = 1 /\ seen.enemy_alive >= 1

\* Mutant: an update does not remember the number it told.
PursueClutchFromStart(r, enemies) ==
  LET told == CASE ~r.clutchActive -> Emit(r, "ClutchStarted", None, enemies)
                [] r.clutchActive /\ r.clutchEnemy # enemies ->
                     Emit(r, "ClutchUpdated", r.clutchEnemy, enemies)
                [] OTHER -> r
      first == IF r.clutchActive THEN r.clutchEnemy ELSE enemies
  IN  [told EXCEPT !.clutchActive = TRUE, !.clutchEnemy = first,
                   !.ctx.clutchActive = TRUE, !.ctx.clutchOpponents = first]

\* A clutch is on: it starts, or its opponents change, or nothing is told.
PursueClutch(r, enemies) ==
  LET told == CASE ~r.clutchActive -> Emit(r, "ClutchStarted", None, enemies)
                [] r.clutchActive /\ r.clutchEnemy # enemies ->
                     Emit(r, "ClutchUpdated", r.clutchEnemy, enemies)
                [] OTHER -> r
  IN  [told EXCEPT !.clutchActive = TRUE, !.clutchEnemy = enemies,
                   !.ctx.clutchActive = TRUE, !.ctx.clutchOpponents = enemies]

EvaluateClutch(r) ==
  LET seen == Perspective(r)
      counted == seen # None /\ seen.local_alive # None /\ seen.enemy_alive # None
  IN  CASE \/ r.state = None \/ r.supplement = None \/ r.team = None
           \/ ~r.known \/ r.supplement.us < r.start -> r
        [] OTHER -> IF counted /\ ClutchNow(r, seen)
                    THEN PursueClutch(r, seen.enemy_alive) ELSE EndClutch(r)

-----------------------------------------------------------------------------
(* Aces.                                                                   *)

SupportedRoundModeForAce(mode) == mode \in {"competitive", "casual", "retakes"}

\* Mutant: a roster that changed and changed back is trusted.
RosterIsKnown(r) ==
  /\ r.enemyTotal # None
  /\ RequireRevision => r.revision # None

\* The roster is known since the round began and did not change.
RosterIsProven(r) ==
  /\ r.enemyTotal # None
  /\ ~r.rosterChanged
  /\ RequireRevision => r.revision # None

\* The latest counts are of this round and its roster: all enemies are dead.
EnemiesAreDead(r) ==
  LET seen == Perspective(r)
  IN  /\ r.supplement # None /\ r.supplement.us >= r.start
      /\ seen # None
      /\ seen.enemy_alive = 0 /\ seen.enemy_total = r.enemyTotal
      /\ r.revision # None => r.supplement.revision = r.revision

EvaluateAce(r) ==
  IF /\ r.known /\ ~r.aceEmitted /\ r.state # None
     /\ SupportedRoundModeForAce(r.state.map_mode)
     /\ RosterIsProven(r) /\ EnemiesAreDead(r)
     /\ r.state.stats.round_kills = r.enemyTotal
  THEN [Emit(r, "Ace", None, r.enemyTotal) EXCEPT !.aceEmitted = TRUE]
  ELSE r

-----------------------------------------------------------------------------
(* The two calls.                                                          *)

\* The facts about the local player in the state s and the factual events.
Learn(r, s, us, facts) ==
  [r EXCEPT !.state = s, !.us = us,
            !.acquired = @ \/ s.local \/ "LocalPlayerAcquired" \in facts,
            !.team = IF s.local /\ s.team # None THEN s.team ELSE @,
            !.alive = CASE "PlayerRespawned" \in facts -> TRUE
                        [] "PlayerDied" \in facts /\ "PlayerRespawned" \notin facts -> FALSE
                        [] OTHER -> IF s.local /\ s.stats.health # None
                                    THEN s.stats.health > 0 ELSE @,
            !.out = <<>>]

\* Mutant: a supplement of the round before will do.
HasSupplement(r) == r.supplement # None /\ FreshAt(r.supplement, r.us, r.maxAge)

HasCurrentRoundSupplement(r) ==
  /\ r.supplement # None
  /\ FreshAt(r.supplement, r.us, r.maxAge)
  /\ r.known => r.supplement.us >= r.start

Evaluate(r) == EvaluateAce(EvaluateClutch(ObserveRoster(UpdateContext(r))))

\* Mutant: entering a match forgets nothing.
AttachAsBefore(r, facts) == r

\* The reset when a match is entered.
AttachTo(r, facts) == IF "MatchEntered" \in facts THEN Reset(r) ELSE r

\* process_gsi(), with the types of the factual events.
ProcessGsi(r, s, us, facts) ==
  LET learnt == UpdateLifecycleContext(
                  Learn(AttachTo(r, facts), s, us, facts))
      begun == IF "RoundStarted" \in facts THEN BeginRound(learnt) ELSE learnt
      judged == IF HasCurrentRoundSupplement(begun) THEN Evaluate(begun)
                ELSE [begun EXCEPT !.ctx.counts = None]
      closed == IF facts \cap {"RoundEnded", "GameOver", "MatchLeft"} = {} THEN judged
                ELSE [EndClutch(judged) EXCEPT !.ended = TRUE]
  IN  IF "MatchLeft" \in facts THEN [Reset(r) EXCEPT !.out = closed.out] ELSE closed

\* Invalid counts, and a snapshot that is older than what was already taken
\* from either source, are ignored.
Accepts(r, snapshot) ==
  /\ ValidTeamCounts(snapshot.teams)
  /\ r.lastSupplementUs # None => snapshot.us >= r.lastSupplementUs
  /\ r.state # None => snapshot.us >= r.us

\* process_supplementary().
ProcessSupplementary(r, snapshot) ==
  LET taken == [r EXCEPT !.supplement = snapshot, !.lastSupplementUs = snapshot.us,
                         !.out = <<>>]
  IN  CASE ~Accepts(r, snapshot) -> [r EXCEPT !.out = <<>>]
        [] Accepts(r, snapshot) /\ r.state = None -> taken
        [] OTHER -> Evaluate(taken)

=============================================================================

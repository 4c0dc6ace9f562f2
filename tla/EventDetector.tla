--------------------------- MODULE EventDetector ---------------------------
(***************************************************************************)
(* The factual event detector (src/src/event_detector.cpp): a comparison   *)
(* of each snapshot with the one before it and with a memory of the match. *)
(*                                                                         *)
(* Process is EventDetector::process.  The events of a batch are in the    *)
(* order the code appends them; an event keeps its type, amount and value. *)
(***************************************************************************)
EXTENDS GameState, Sequences

VARIABLES
  previous,   \* previous_
  memory,     \* the last_* fields and the two flags
  events      \* the batch the last call returned

detectorVars == <<previous, memory, events>>

\* The enumeration of event types, of which the last four are the resolver's.
EventType ==
  {"MatchEntered", "MatchLeft", "FreezeStarted", "FreezeEnded", "RoundStarted", "RoundEnded",
   "RoundWon", "RoundLost", "TeamChanged", "LocalPlayerAcquired", "LocalPlayerLost",
   "LocalPlayerRestored", "PlayerRespawned", "PlayerDamaged", "PlayerDied", "PlayerKill",
   "PlayerHeadshotKill", "PlayerAssist", "PlayerFlashed", "PlayerSmoked", "PlayerBurning",
   "AceCandidate", "MvpGained", "BombPlanted", "BombDefused", "BombExploded",
   "BombStateCleared", "HalftimeStarted", "HalftimeEnded", "GameOver",
   "Ace", "ClutchStarted", "ClutchUpdated", "ClutchEnded"}

\* clear_match_memory().
ClearedMemory ==
  [endedRound |-> None, outcomeRound |-> None, hp |-> None, mvps |-> None,
   assists |-> None, team |-> None, acquired |-> FALSE, lost |-> FALSE]

DetectorInit ==
  /\ previous = None
  /\ memory = ClearedMemory
  /\ events = <<>>

-----------------------------------------------------------------------------

Fact(type) == [type |-> type, amount |-> None, value |-> None]
Measured(type, amount, value) == [type |-> type, amount |-> amount, value |-> value]
When(condition, event) == IF condition THEN <<event>> ELSE <<>>

Or(value, default) == IF value # None THEN value ELSE default

\* changed_to(): the value is reached by this snapshot.
ChangedTo(old, new, value) == new = value /\ old # value

Rose(old, new) == old # None /\ new # None /\ new > old
Fell(old, new) == old # None /\ new # None /\ new < old
Gain(type, old, new) == When(Rose(old, new), Measured(type, new - old, new))

\* The rising edge of a transient effect.
Appeared(type, old, new) ==
  When(new # None /\ new > 0 /\ (old = None \/ old <= 0), Measured(type, None, new))

\* ace_candidate_threshold(): None for modes without a fixed enemy count.
AceCandidateThreshold(s) ==
  CASE s.map_mode = "competitive"               -> 5
    [] s.map_mode = "retakes" /\ s.team = "CT" -> 3
    [] s.map_mode = "retakes" /\ s.team = "T"  -> 4
    [] OTHER                                    -> None

-----------------------------------------------------------------------------
(* The parts of a batch, for the previous snapshot p, the current one c    *)
(* and the memory m.                                                       *)

\* What the local player did, between two snapshots that are both about it.
PairwiseEvents(p, c) ==
  LET old == p.stats
      new == c.stats
      threshold == AceCandidateThreshold(c)
  IN  IF ~(p.local /\ c.local) THEN <<>> ELSE
        When(Fell(old.health, new.health),
             Measured("PlayerDamaged", old.health - new.health, new.health))
     \o When(Fell(old.health, new.health) /\ new.health = 0, Fact("PlayerDied"))
     \o When(Rose(old.health, new.health) /\ old.health = 0, Fact("PlayerRespawned"))
     \o Gain("PlayerKill", old.round_kills, new.round_kills)
     \o When(/\ Rose(old.round_kills, new.round_kills)
             /\ "live" \in {p.round_phase, c.round_phase}
             /\ threshold # None
             /\ old.round_kills < threshold /\ new.round_kills >= threshold,
             Measured("AceCandidate", None, new.round_kills))
     \o Gain("PlayerHeadshotKill", old.round_headshot_kills, new.round_headshot_kills)
     \o Gain("PlayerAssist", old.assists, new.assists)
     \o Appeared("PlayerFlashed", old.flashed, new.flashed)
     \o Appeared("PlayerSmoked", old.smoked, new.smoked)
     \o Appeared("PlayerBurning", old.burning, new.burning)
     \o Gain("MvpGained", old.mvps, new.mvps)

\* Mutant: the memory of the assists is not used.
RestoredWithoutAssists(c, m) ==
     <<Fact("LocalPlayerRestored")>>
  \o When(m.hp = 0 /\ c.stats.health # None /\ c.stats.health > 0, Fact("PlayerRespawned"))
  \o Gain("MvpGained", m.mvps, c.stats.mvps)

\* What happened to it while another player was observed.
RestoredEvents(c, m) ==
     <<Fact("LocalPlayerRestored")>>
  \o When(m.hp = 0 /\ c.stats.health # None /\ c.stats.health > 0, Fact("PlayerRespawned"))
  \o Gain("MvpGained", m.mvps, c.stats.mvps)
  \o Gain("PlayerAssist", m.assists, c.stats.assists)

BombEvents(p, c) ==
     When(ChangedTo(p.bomb, c.bomb, "planted"), Fact("BombPlanted"))
  \o When(ChangedTo(p.bomb, c.bomb, "defused"), Fact("BombDefused"))
  \o When(ChangedTo(p.bomb, c.bomb, "exploded"), Fact("BombExploded"))
  \o When(p.bomb = "planted" /\ c.bomb # "planted", Fact("BombStateCleared"))

WinnerAppeared(p, c) == c.winner # None /\ p.winner # c.winner

RoundEndEvidence(p, c) ==
  /\ p.round_phase = "live"
  /\ \/ c.round_phase = "over"
     \/ Rose(p.map_round, c.map_round)
     \/ WinnerAppeared(p, c)
     \/ ChangedTo(p.map_phase, c.map_phase, "gameover")

\* ended_round: the round the evidence is about.
EndedRound(p, c) ==
  IF RoundEndEvidence(p, c) THEN Or(p.map_round, Or(c.map_round, -1)) ELSE None

OutcomeTeam(c, m) == Or(m.team, IF c.local THEN c.team ELSE None)
OutcomeRound(p, c, m) == Or(EndedRound(p, c), m.endedRound)

HasOutcome(p, c, m) ==
  /\ c.winner # None
  /\ OutcomeTeam(c, m) # None
  /\ OutcomeRound(p, c, m) # None
  /\ RoundEndEvidence(p, c) \/ WinnerAppeared(p, c)
  /\ m.outcomeRound # OutcomeRound(p, c, m)

\* Further evidence of the end of the same round is not reported.
\* Mutant: every evidence is reported.
RoundEndsAgain(p, c, m) == RoundEndEvidence(p, c)
RoundEnds(p, c, m) == RoundEndEvidence(p, c) /\ m.endedRound # EndedRound(p, c)

RoundEvents(p, c, m) ==
     When(RoundEnds(p, c, m), Measured("RoundEnded", None, EndedRound(p, c)))
  \o When(HasOutcome(p, c, m),
          Measured(IF c.winner = OutcomeTeam(c, m) THEN "RoundWon" ELSE "RoundLost",
                   None, OutcomeRound(p, c, m)))
  \o When(ChangedTo(p.round_phase, c.round_phase, "freezetime") /\ c.map_phase # "gameover",
          Fact("FreezeStarted"))
  \o (IF p.round_phase = "freezetime" /\ c.round_phase = "live"
      THEN <<Fact("FreezeEnded"), Fact("RoundStarted")>> ELSE <<>>)

MatchEvents(p, c, m) ==
     When(ChangedTo(p.map_phase, c.map_phase, "intermission"), Fact("HalftimeStarted"))
  \o When(p.map_phase = "intermission" /\ c.map_phase # "intermission", Fact("HalftimeEnded"))
  \o When(c.local /\ c.team # None /\ m.team # None /\ c.team # m.team, Fact("TeamChanged"))
  \o When(ChangedTo(p.map_phase, c.map_phase, "gameover"), Fact("GameOver"))

\* The last_known_local_* fields after a snapshot.
Remember(m, c) ==
  IF ~c.local THEN m
  ELSE [m EXCEPT !.hp = Or(c.stats.health, @), !.mvps = Or(c.stats.mvps, @),
                 !.assists = Or(c.stats.assists, @), !.team = Or(c.team, @)]

-----------------------------------------------------------------------------
(* process(), by its returns.                                              *)

\* The first snapshot ever: only a map and the local player are reported.
ProcessFirst(c) ==
  /\ previous = None
  /\ LET acquires == c.map_name # None /\ c.local
     IN  /\ events' = When(c.map_name # None, Fact("MatchEntered"))
                     \o When(acquires, Fact("LocalPlayerAcquired"))
         /\ memory' = Remember([memory EXCEPT !.acquired = @ \/ acquires], c)
  /\ previous' = c

Enters(p, c) == p.map_name = None /\ c.map_name # None
Leaves(p, c) == p.map_name # None /\ c.map_name = None

\* The early return on match leave.
ProcessLeave(c) ==
  /\ previous # None /\ Leaves(previous, c)
  /\ events' = <<Fact("MatchLeft")>>
  /\ memory' = ClearedMemory
  /\ previous' = c

IsOtherPlayer(c) == c.provider # None /\ c.observed # None /\ ~c.local

\* Whose point of view it is, against the memory m of the match.
Acquires(m, c) == c.map_name # None /\ c.local /\ ~m.acquired
\* Mutant: every snapshot of another player is a loss.
LosesAgain(m, c) == m.acquired /\ IsOtherPlayer(c)
\* Mutant: another player before the local one is a loss too.
LosesBeforeAcquired(m, c) == IsOtherPlayer(c) /\ ~m.lost
Loses(m, c) == m.acquired /\ IsOtherPlayer(c) /\ ~m.lost
Restores(m, c) == m.acquired /\ m.lost /\ c.local
\* Mutant: the loss is not reset on restoration.
LostForGood(m, c) == m.lost \/ Loses(m, c)
LostAfter(m, c) == (m.lost \/ Loses(m, c)) /\ ~Restores(m, c)

\* The memory as the comparison uses it: cleared when a match is entered, with
\* the acquisition, but before the loss or the restoration.
MatchMemory(c) ==
  LET old == IF Enters(previous, c) THEN ClearedMemory ELSE memory
  IN  [old EXCEPT !.acquired = @ \/ Acquires(old, c)]

\* The events of a call that compares.
Batch(c) ==
  LET p == previous
      m == MatchMemory(c)
  IN     When(Enters(p, c), Fact("MatchEntered"))
      \o When(m.acquired /\ (Enters(p, c) \/ ~memory.acquired), Fact("LocalPlayerAcquired"))
      \o When(Loses(m, c), Fact("LocalPlayerLost"))
      \o (IF Restores(m, c) THEN RestoredEvents(c, m) ELSE <<>>)
      \o PairwiseEvents(p, c)
      \o BombEvents(p, c)
      \o RoundEvents(p, c, m)
      \o MatchEvents(p, c, m)

ProcessNext(c) ==
  /\ previous # None /\ ~Leaves(previous, c)
  /\ events' = Batch(c)
  /\ LET p == previous
         m == MatchMemory(c)
     IN  memory' = Remember([m EXCEPT !.lost = LostAfter(m, c),
                                      !.endedRound = Or(EndedRound(p, c), @),
                                      !.outcomeRound = IF HasOutcome(p, c, m)
                                                       THEN OutcomeRound(p, c, m) ELSE @], c)
  /\ previous' = c

Process(c) == ProcessFirst(c) \/ ProcessLeave(c) \/ ProcessNext(c)

\* A payload that is no JSON object changes nothing and reports nothing.
ProcessInvalid == events' = <<>> /\ UNCHANGED <<previous, memory>>

EventTypes(batch) == {batch[i].type : i \in DOMAIN batch}

=============================================================================
